---------------------------- MODULE Spec2Model ----------------------------
(***************************************************************************)
(* Model of the intent relay of veridoc-ai: the POST handler of            *)
(* /api/intents/relay (field check, signature verification, amount         *)
(* extraction, MongoDB credit), the cached MongoDB connection (dbConnect)  *)
(* and the User collection it writes.                                      *)
(*                                                                         *)
(* Strings the code inspects character by character (the amount token of   *)
(* the signed message) are sequences of one-character strings.  Numbers    *)
(* read by parseFloat are decimal fractions mant / 10^exp; balances are    *)
(* integers (micro USDT).                                                  *)
(***************************************************************************)
EXTENDS Integers, Sequences, FiniteSets, TLC

(***************************************************************************)
(* Bounds of the model.                                                    *)
(***************************************************************************)
\* number of relay requests (each handled by one invocation of POST)
NumHandlers == 2
\* the clock (Date.now()) runs over 1..MaxTime
MaxTime == 2
\* number of persistence operations (connect, find, create, save) that fail
MaxFailures == 2
\* number of connection attempts (mongoose.connect calls)
MaxAttempts == 3

Handlers == 1..NumHandlers

(***************************************************************************)
(* Numbers and the amount token.                                           *)
(***************************************************************************)
Digits == {"0", "1", "2", "3", "4", "5", "6", "7", "8", "9"}

DigitVal(c) ==
  CASE c = "0" -> 0 [] c = "1" -> 1 [] c = "2" -> 2 [] c = "3" -> 3
    [] c = "4" -> 4 [] c = "5" -> 5 [] c = "6" -> 6 [] c = "7" -> 7
    [] c = "8" -> 8 [] c = "9" -> 9

RECURSIVE Pow10(_)
Pow10(k) == IF k = 0 THEN 1 ELSE 10 * Pow10(k - 1)

\* a JavaScript number that parseFloat can return for a token of digits and
\* dots: NaN, or the decimal fraction mant / 10^exp without trailing zeros
NaN == [nan |-> TRUE, mant |-> 0, exp |-> 0]

RECURSIVE Normalise(_, _)
Normalise(m, e) ==
  IF e > 0 /\ m % 10 = 0 THEN Normalise(m \div 10, e - 1)
  ELSE [nan |-> FALSE, mant |-> m, exp |-> e]

\* length of the longest run of digits of s starting at position i
RECURSIVE DigitRun(_, _)
DigitRun(s, i) ==
  IF i <= Len(s) /\ s[i] \in Digits THEN 1 + DigitRun(s, i + 1) ELSE 0

\* the value of the digits s[i .. i+n-1] read as a decimal integer
RECURSIVE DigitsValue(_, _, _)
DigitsValue(s, i, n) ==
  IF n = 0 THEN 0
  ELSE 10 * DigitsValue(s, i, n - 1) + DigitVal(s[i + n - 1])

\* parseFloat on a token: the longest prefix  digits [ "." digits ]  with at
\* least one digit; NaN when there is none.  Anything after it is ignored.
ParseFloat(s) ==
  LET ni == DigitRun(s, 1)
      dot == ni + 1 <= Len(s) /\ s[ni + 1] = "."
      nf == IF dot THEN DigitRun(s, ni + 2) ELSE 0
  IN  IF ni + nf = 0 THEN NaN
      ELSE Normalise(DigitsValue(s, 1, ni) * Pow10(nf) + DigitsValue(s, ni + 2, nf), nf)

\* the capture group of /Deposit\s+([\d.]+)\s+USDT/i on the text
\* "Deposit <token> USDT to Veridoc via Intents": the token when it is a
\* non-empty run of digits and dots, no match (<<>>) otherwise
AmountMatch(token) ==
  IF Len(token) > 0 /\ \A i \in 1..Len(token) : token[i] \in Digits \cup {"."}
  THEN token ELSE <<>>

\* depositAmount <= 0 for a number that is not NaN
IsNaN(x) == x.nan
NotPositive(x) == x.mant <= 0

\* 6 decimals of USDT
Decimals == 6

\* Math.floor(depositAmount * 1_000_000)
UsdtAmountWithDecimals(x) == (x.mant * Pow10(Decimals)) \div Pow10(x.exp)


(***************************************************************************)
(* Requests.  A request body is a JSON value; an envelope is a JSON object *)
(* with the fields accountId, message, signature and publicKey.            *)
(***************************************************************************)
Accounts == {"alice", "bob"}

\* a field that is undefined or the empty string (falsy)
Absent == ""

\* no deadline field in the payload
NoDeadline == 0

\* a deadline no clock value of the model reaches
FarDeadline == MaxTime + 5

\* The message field.  kind: "absent" (undefined or ""), "nonstring" (a JSON
\* number or object), or a string whose content is "notjson" (JSON.parse
\* throws), "nomsg" (JSON without a message member, such as a serialized
\* TokenTransferIntent), "badmsg" (the message member is not a string) or
\* "text" (message member "Deposit <token> USDT to Veridoc via Intents").
Msg(kind, token, deadline) ==
  [kind |-> kind, token |-> token, deadline |-> deadline]

Text(token, deadline) == Msg("text", token, deadline)

T50 == <<"5", "0", ".", "0", "0">>
T2 == <<"2", ".", "5">>
TZero == <<"0">>
TNeg == <<"-", "5">>
TDot == <<".">>
TTwoDots == <<"1", ".", "5", ".", "7">>
TTiny == <<"0", ".", "0", "0", "0", "0", "0", "0", "1">>

NoMessage == Msg("absent", <<>>, NoDeadline)

\* payloads the ledger step can be reached with
CreditMessages ==
  {Text(T50, NoDeadline), Text(T2, NoDeadline), Text(TTwoDots, NoDeadline),
   Text(T50, 1), Text(T50, FarDeadline)}

\* payloads the amount extraction rejects
BadMessages ==
  {Text(TZero, NoDeadline), Text(TNeg, NoDeadline), Text(TDot, NoDeadline),
   Text(TNeg, 1), Msg("notjson", <<>>, NoDeadline),
   Msg("nomsg", <<>>, 1), Msg("badmsg", <<>>, NoDeadline)}

\* The signature field.  form: "absent", a string in "hex" (0x-prefixed) or
\* "base64", a string in another encoding ("base58"), an "array" of bytes, or
\* "other" (a JSON number or object).
\* msg and key say what the bytes are a signature of: message msg under the
\* private key of public key key.
Sig(form, msg, key) == [form |-> form, msg |-> msg, key |-> key]

NoSignature == Sig("absent", NoMessage, Absent)

\* publicKey: Absent, "bad" (not parsable by PublicKey.fromString) or a key
Keys == {"K1", "K2"}

Envelope(a, m, s, k) ==
  [body |-> "object", accountId |-> a, message |-> m, signature |-> s,
   publicKey |-> k]

\* an envelope signed by the holder of K1
Signed(a, m) == Envelope(a, m, Sig("base64", m, "K1"), "K1")

\* a body that is no JSON object: "null", or "unparsable" (request.json()
\* throws)
NonObject(b) ==
  [body |-> b, accountId |-> Absent, message |-> NoMessage,
   signature |-> NoSignature, publicKey |-> Absent]

M50 == Text(T50, NoDeadline)

GoodEnvelopes ==
  {Signed(a, m) : a \in Accounts, m \in CreditMessages}
    \cup {Envelope("alice", M50, Sig(f, M50, "K1"), "K1") : f \in {"hex", "array"}}
    \cup {Signed("alice", Text(TTiny, NoDeadline))}

FaultyEnvelopes ==
  {Signed("alice", m) : m \in BadMessages}
    \cup {Signed(Absent, M50), Signed("alice", NoMessage),
          Signed("alice", Msg("nonstring", <<>>, NoDeadline))}
    \cup {Envelope("alice", M50, s, "K1") :
            s \in {NoSignature, Sig("other", M50, "K1"), Sig("base58", M50, "K1"),
                   Sig("base64", M50, "K2"),
                   Sig("hex", Text(T2, NoDeadline), "K1")}}
    \cup {Envelope("alice", M50, Sig("base64", M50, "K1"), k) :
            k \in {Absent, "bad", "K2"}}
    \cup {Envelope("bob", Text(T50, 1), Sig("base64", Text(T50, 1), "K2"), "K1"),
          Envelope("bob", NoMessage, Sig("base64", M50, "K2"), "K1"),
          Envelope(Absent, Text(TNeg, NoDeadline), NoSignature, "bad")}
    \cup {NonObject("null"), NonObject("unparsable")}

Envelopes == GoodEnvelopes \cup FaultyEnvelopes

(***************************************************************************)
(* The gates of POST as functions of the request body.                     *)
(***************************************************************************)
\* the presence check with publicKey forgotten
MissingFieldsNoKey(e) ==
  \/ e.accountId = Absent
  \/ e.message.kind = "absent"
  \/ e.signature.form = "absent"

\* !accountId || !message || !signature || !publicKey
MissingFields(e) ==
  \/ e.accountId = Absent
  \/ e.message.kind = "absent"
  \/ e.signature.form = "absent"
  \/ e.publicKey = Absent

\* a verification that does not bind the signature to the key
VerifyIgnoresKey(publicKey, message, signature) == signature.msg = message

\* PublicKey.verify(messageBytes, signatureBytes): the bytes are a signature
\* of this message under this key
Verify(publicKey, message, signature) ==
  signature.msg = message /\ signature.key = publicKey

\* the forms of a signature that lines 420-444 turn into bytes: a string or
\* an array
Decodable == {"hex", "base64", "base58", "array"}

\* a decoding that understands every string encoding
DecodeAnyEncoding(signature) == signature

\* lines 420-444: signatureBytes.  A string that does not start with 0x is
\* read as base64, whatever its encoding: the bytes of a string in another
\* encoding are the signature of nothing.
Decode(signature) ==
  IF signature.form \in {"hex", "base64", "array"} THEN signature
  ELSE [form |-> signature.form, msg |-> NoMessage, key |-> Absent]

\* step 1 without the branch on isValid
SignatureGateNoVerify(e) ==
  IF e.publicKey \notin Keys THEN "throws"
  ELSE IF e.signature.form \notin Decodable THEN "format"
  ELSE "ok"

\* Step 1 of POST: "ok", or the response of the branch that returns
SignatureGate(e) ==
  IF e.publicKey \notin Keys THEN "throws"
  ELSE IF e.signature.form \notin Decodable THEN "format"
  ELSE IF ~Verify(e.publicKey, e.message, Decode(e.signature)) THEN "invalid"
  ELSE "ok"

\* step 2 going on with a default when the pattern does not match
ParseGateDefaults(m) ==
  IF m.kind \in {"notjson", "badmsg"} THEN "throws"
  ELSE IF m.kind # "text" \/ AmountMatch(m.token) = <<>> THEN "ok"
  ELSE IF IsNaN(ParseFloat(AmountMatch(m.token)))
            \/ NotPositive(ParseFloat(AmountMatch(m.token))) THEN "invalid"
  ELSE "ok"

\* Step 2 of POST: "ok", or the branch that returns
ParseGate(m) ==
  IF m.kind \in {"notjson", "badmsg"} THEN "throws"
  ELSE IF m.kind # "text" \/ AmountMatch(m.token) = <<>> THEN "nomatch"
  ELSE IF IsNaN(ParseFloat(AmountMatch(m.token)))
            \/ NotPositive(ParseFloat(AmountMatch(m.token))) THEN "invalid"
  ELSE "ok"

\* depositAmount of a message that passes step 2
DepositAmount(m) == ParseFloat(AmountMatch(m.token))

\* the responses of POST
MissingFieldsError == "Missing required fields"
SignatureFormatError == "Invalid signature format"
InvalidSignatureError == "Invalid signature"
SignatureFailedError == "Signature verification failed"
NoAmountError == "Could not extract amount from message"
InvalidAmountError == "Invalid amount in message"
MessageFormatError == "Invalid message format"
InternalError == "Internal error"

Rejection(status, error) ==
  [status |-> status, error |-> error, success |-> FALSE, newBalance |-> 0]

Success(balance) ==
  [status |-> 200, error |-> "", success |-> TRUE, newBalance |-> balance]

NoResponse == [status |-> 0, error |-> "", success |-> FALSE, newBalance |-> 0]

(***************************************************************************)
(* The User collection.  A document is [accountId, balance, transactions]; *)
(* its position in users is its _id.                                       *)
(***************************************************************************)
Transaction(accountId, m, amount, timestamp) ==
  [type |-> "intent_deposit", status |-> "completed", amount |-> amount,
   metadata |-> [accountId |-> accountId, message |-> m.token,
                 timestamp |-> timestamp]]

NewUser(accountId) ==
  [accountId |-> accountId, balance |-> 0, transactions |-> <<>>]

\* no document in memory (findOne returned null)
NoUser == [id |-> 0, accountId |-> Absent, balance |-> 0, transactions |-> <<>>]

\* the document with _id k, as loaded into memory
Loaded(docs, k) ==
  [id |-> k, accountId |-> docs[k].accountId, balance |-> docs[k].balance,
   transactions |-> docs[k].transactions]

\* User.findOne({ accountId }): the _id of the first match, 0 for none
FindOneId(docs, accountId) ==
  IF \E k \in 1..Len(docs) : docs[k].accountId = accountId
  THEN CHOOSE k \in 1..Len(docs) :
         /\ docs[k].accountId = accountId
         /\ \A j \in 1..(k - 1) : docs[j].accountId # accountId
  ELSE 0

\* a collection without the unique index
NoUniqueIndex(docs, accountId) == FALSE

\* the unique index on accountId refuses the insert (E11000)
DuplicateKey(docs, accountId) ==
  \E k \in 1..Len(docs) : docs[k].accountId = accountId

\* lines 527-547: the credit applied to the document in memory
Credited(user, e, timestamp) ==
  [user EXCEPT
     !.balance = @ + UsdtAmountWithDecimals(DepositAmount(e.message)),
     !.transactions =
        Append(@, Transaction(e.accountId, e.message, DepositAmount(e.message),
                              timestamp))]

\* a save that writes the first document of the collection, whatever the _id
SaveFirstDocument(docs, user) ==
  [docs EXCEPT
     ![1] =
        [@ EXCEPT !.balance = user.balance,
                  !.transactions = Append(@, user.transactions[Len(user.transactions)])]]

\* a save that replaces the stored array by the array in memory
SaveOverwrites(docs, user) ==
  [docs EXCEPT
     ![user.id] = [@ EXCEPT !.balance = user.balance,
                            !.transactions = user.transactions]]

\* a save that writes the balance and loses the pushed transaction
SaveBalanceOnly(docs, user) ==
  [docs EXCEPT ![user.id] = [@ EXCEPT !.balance = user.balance]]

\* user.save(): one update of the document with that _id, which sets the
\* modified path balance to the value in memory and pushes the elements
\* appended in memory since the load onto the stored array
SaveUser(docs, user) ==
  [docs EXCEPT
     ![user.id] =
        [@ EXCEPT !.balance = user.balance,
                  !.transactions = Append(@, user.transactions[Len(user.transactions)])]]

(***************************************************************************)
(* The intent builder (lib/intents/defuse).                                *)
(***************************************************************************)
\* parseFloat on a string that may start with a sign
ParseFloatSigned(s) ==
  IF Len(s) > 0 /\ s[1] \in {"-", "+"}
  THEN LET x == ParseFloat(Tail(s))
       IN  IF x.nan THEN NaN
           ELSE IF s[1] = "-" THEN [x EXCEPT !.mant = 0 - @] ELSE x
  ELSE ParseFloat(s)

\* x <= 0 in JavaScript: false for NaN
LessOrEqualZero(x) == ~x.nan /\ x.mant <= 0

\* deadlineMinutes of CreateIntentOptions: undefined, or a number
NoMinutes == [given |-> FALSE, minutes |-> 0]
Minutes(n) == [given |-> TRUE, minutes |-> n]

\* the default of the parameter deadlineMinutes
DefaultDeadlineMinutes == 30

CreateIntentOptions(signerId, receiverId, tokenIn, amountIn, tokenOut, deadlineMinutes) ==
  [signerId |-> signerId, receiverId |-> receiverId, tokenIn |-> tokenIn,
   amountIn |-> amountIn, tokenOut |-> tokenOut,
   deadlineMinutes |-> deadlineMinutes]

\* generateNonce: `${Date.now()}-${Math.floor(Math.random() * 1000000)}`
GenerateNonce(time, random) == <<time, random>>

\* calculateDeadline(minutes = 30)
CalculateDeadline(deadlineMinutes, time) ==
  time + (IF deadlineMinutes.given THEN deadlineMinutes.minutes
          ELSE DefaultDeadlineMinutes) * 60 * 1000

SignerReceiverError == "signerId y receiverId son requeridos"
TokensAmountError == "tokenIn, tokenOut y amountIn son requeridos"
AmountPositiveError == "amountIn debe ser mayor a 0"

\* what a call of createTokenTransferIntent ends with: an exception, or the
\* intent returned
Thrown(message) ==
  [kind |-> "error", error |-> message, nonce |-> <<>>, deadline |-> 0,
   options |-> <<>>]

NoIntent ==
  [kind |-> "none", error |-> "", nonce |-> <<>>, deadline |-> 0, options |-> <<>>]

\* !tokenIn || !tokenOut || !amountIn
FieldsMissing(options) ==
  options.tokenIn = Absent \/ options.tokenOut = Absent \/ options.amountIn = <<>>

\* createTokenTransferIntent(options), called at `time` with the random
\* number `random`
CreateTokenTransferIntent(options, time, random) ==
  IF options.signerId = Absent \/ options.receiverId = Absent
  THEN Thrown(SignerReceiverError)
  ELSE IF FieldsMissing(options)
  THEN Thrown(TokensAmountError)
  ELSE IF LessOrEqualZero(ParseFloatSigned(options.amountIn))
  THEN Thrown(AmountPositiveError)
  ELSE [kind |-> "intent", error |-> "",
        nonce |-> GenerateNonce(time, random),
        deadline |-> CalculateDeadline(options.deadlineMinutes, time),
        options |-> <<options>>]

\* a validity check that admits the deadline itself
IsIntentValidInclusive(intent, time) == time <= intent.deadline

\* isIntentValid(intent): Date.now() < intent.deadline
IsIntentValid(intent, time) == time < intent.deadline

\* serializeIntent(intent): JSON.stringify(intent, null, 2), a JSON text with
\* the members nonce, deadline, action and metadata, and no member message
SerializeIntent(intent) == Msg("nomsg", <<>>, intent.deadline)

(***************************************************************************)
(* State.                                                                  *)
(***************************************************************************)
VARIABLES
  users,          \* the User collection
  users0,         \* the collection as it was when the server started
  now,            \* Date.now()
  uriSet,         \* process.env.MONGODB_URI is defined
  cachedConn,     \* cached.conn is set
  cachedPromise,  \* cached.promise: 0 for null, else a connection attempt
  attempts,       \* the mongoose.connect promises: "pending", "fulfilled", "rejected"
  failures,       \* persistence operations that have failed so far
  pc,             \* per request: where POST is
  env,            \* per request: the body
  awaited,        \* per request: the promise dbConnect awaits
  user,           \* per request: the document in memory
  resp,           \* per request: the response
  steps,          \* per request: the steps of POST that have run, in order
  modal,          \* IntentPaymentModal: the prop isOpen, the state, the timeouts
  signing,        \* per click on "Firmar y Enviar": the call of handleSignIntent
  deposit,        \* DepositIntent: its state and the call of handleDeposit
  posts,          \* the POSTs the components have sent to the relay
  nonces,         \* number of random draws made for nonces
  builder,        \* a use of the intent builder: options, result, checks
  page,           \* BalancePage: balance and transactions
  wallet,         \* the wallet's store and the WalletProvider instances
  health          \* a GET of the status route: its three checks and its response

vars ==
  <<users, users0, now, uriSet, cachedConn, cachedPromise, attempts, failures,
    pc, env, awaited, user, resp, steps, modal, signing, deposit, posts,
    nonces, builder, page, wallet, health>>

\* the state of the browser side
clientVars ==
  <<modal, signing, deposit, posts, nonces, builder, page, wallet, health>>

\* the balance page, the wallet provider and the status route
besideVars == <<page, wallet, health>>

cacheVars == <<uriSet, cachedConn, cachedPromise, attempts>>

serverVars ==
  <<users, users0, now, cacheVars, failures, pc, env, awaited, user, resp, steps>>

\* stores the server can start with: empty, or alice with one earlier deposit
InitialStores ==
  {<<>>,
   <<[accountId |-> "alice", balance |-> UsdtAmountWithDecimals(ParseFloat(T2)),
      transactions |->
        <<Transaction("alice", Text(T2, NoDeadline), ParseFloat(T2), 1)>>]>>}

RelayInit ==
  /\ users \in InitialStores
  /\ users0 = users
  /\ now = 1
  /\ uriSet \in BOOLEAN
  /\ cachedConn = FALSE
  /\ cachedPromise = 0
  /\ attempts = <<>>
  /\ failures = 0
  /\ pc = [h \in Handlers |-> "idle"]
  /\ env = [h \in Handlers |-> NonObject("null")]
  /\ awaited = [h \in Handlers |-> 0]
  /\ user = [h \in Handlers |-> NoUser]
  /\ resp = [h \in Handlers |-> NoResponse]
  /\ steps = [h \in Handlers |-> <<>>]

\* number of clicks on "Firmar y Enviar" the model follows
MaxClicks == 2

\* intents constructed by the components
MaxIntents == 2

Clicks == 1..MaxClicks

\* no call of handleSignIntent
NoCall == [pc |-> "idle", intent |-> NoIntent, handler |-> 0, signed |-> "none"]

\* the components as mounted: useState initial values
ClientInit ==
  /\ modal = [isOpen |-> TRUE, step |-> "select", selectedToken |-> Absent,
              intent |-> NoIntent, error |-> "", quoteAmount |-> <<>>,
              quotes |-> <<>>, closers |-> 0, paid |-> FALSE]
  /\ signing = [i \in Clicks |-> NoCall]
  /\ deposit = [destinationAmount |-> <<>>, isProcessing |-> FALSE, error |-> "",
                successMessage |-> "", pc |-> "idle", nonce |-> <<>>,
                message |-> NoMessage, handler |-> 0, signed |-> "none",
                clearTimer |-> FALSE]
  /\ posts = <<>>
  /\ nonces = 0
  /\ page = [balance |-> Normalise(0, 0), transactions |-> <<>>]

\* mounts of WalletProvider
MaxMounts == 2
Providers == 1..MaxMounts

\* a WalletProvider not yet mounted: useState initial values, no subscription
NoProvider ==
  [life |-> "new", pc |-> "idle", selector |-> FALSE, accountId |-> Absent,
   subscribed |-> FALSE, late |-> FALSE]

\* the wallet signed out and no provider mounted; store is accounts[0] of the
\* selector's store, Absent when accounts is empty
NoWallet == [store |-> Absent, inst |-> [p \in Providers |-> NoProvider]]

\* no GET of the status route yet; llamaKey and nearKey tell whether
\* LLAMA_CLOUD_API_KEY and NEAR_AI_API_KEY are set in the environment
NoStatus ==
  [pc |-> "idle", llamaKey |-> FALSE, nearKey |-> FALSE, mongo |-> "idle",
   llama |-> "idle", near |-> "idle", status |-> ""]

\* the builder not in use
NoBuilder ==
  [options |-> <<>>, result |-> NoIntent, builtAt |-> 0, intent |-> NoIntent,
   log |-> <<>>]

Init ==
  /\ RelayInit /\ ClientInit /\ builder = NoBuilder
  /\ wallet = NoWallet /\ health = NoStatus

\* POST returns a response without reaching the end
Reject(h, status, error) ==
  /\ pc' = [pc EXCEPT ![h] = "rejected"]
  /\ resp' = [resp EXCEPT ![h] = Rejection(status, error)]

Ran(h, step) == steps' = [steps EXCEPT ![h] = Append(@, step)]

Goto(h, label) == pc' = [pc EXCEPT ![h] = label] /\ UNCHANGED resp

(***************************************************************************)
(* POST, one action per step between two awaits or two gates.              *)
(***************************************************************************)
\* a request arrives; requests are numbered in the order of their arrival
Accept(h, e) ==
  /\ pc[h] = "idle"
  /\ \A j \in 1..(h - 1) : pc[j] # "idle"
  /\ env' = [env EXCEPT ![h] = e]
  /\ Goto(h, "received")
  /\ UNCHANGED <<users, users0, now, cacheVars, failures, awaited, user, steps>>

\* a request sent by any client of the route
Receive(h, e) == Accept(h, e) /\ UNCHANGED clientVars

\* lines 397-410: request.json(), the destructuring, the presence check and
\* message.substring
FieldCheck(h) ==
  /\ pc[h] = "received"
  /\ Ran(h, "fields")
  /\ IF env[h].body # "object" THEN Reject(h, 500, InternalError)
     ELSE IF MissingFields(env[h]) THEN Reject(h, 400, MissingFieldsError)
     ELSE IF env[h].message.kind = "nonstring" THEN Reject(h, 500, InternalError)
     ELSE Goto(h, "fields_ok")
  /\ UNCHANGED <<users, users0, now, cacheVars, failures, env, awaited, user>>
  /\ UNCHANGED clientVars

\* lines 413-464
VerifySignature(h) ==
  /\ pc[h] = "fields_ok"
  /\ Ran(h, "signature")
  /\ CASE SignatureGate(env[h]) = "throws" -> Reject(h, 401, SignatureFailedError)
       [] SignatureGate(env[h]) = "format" -> Reject(h, 400, SignatureFormatError)
       [] SignatureGate(env[h]) = "invalid" -> Reject(h, 401, InvalidSignatureError)
       [] OTHER -> Goto(h, "signature_checked")
  /\ UNCHANGED <<users, users0, now, cacheVars, failures, env, awaited, user>>
  /\ UNCHANGED clientVars

\* lines 466-501
ParseMessage(h) ==
  /\ pc[h] = "signature_checked"
  /\ Ran(h, "parse")
  /\ CASE ParseGate(env[h].message) = "throws" -> Reject(h, 400, MessageFormatError)
       [] ParseGate(env[h].message) = "nomatch" -> Reject(h, 400, NoAmountError)
       [] ParseGate(env[h].message) = "invalid" -> Reject(h, 400, InvalidAmountError)
       [] OTHER -> Goto(h, "parsed")
  /\ UNCHANGED <<users, users0, now, cacheVars, failures, env, awaited, user>>
  /\ UNCHANGED clientVars

\* Run to completion: when a promise settles, the continuations of all the
\* calls awaiting it (lines 47-52) run before the event loop takes up the next
\* event, be it a request reaching dbConnect or another attempt settling.
ContinuationsDone ==
  \A h \in Handlers : pc[h] = "connecting" => attempts[awaited[h]] = "pending"

(***************************************************************************)
(* dbConnect (lib/mongodb.ts).                                             *)
(***************************************************************************)
\* dbConnect without the test of the cached promise
DbConnectNoJoin(h) ==
  /\ pc[h] = "parsed"
  /\ ContinuationsDone
  /\ Ran(h, "connect")
  /\ IF cachedConn
     THEN Goto(h, "connected") /\ UNCHANGED <<cachedPromise, attempts, awaited>>
     ELSE IF ~uriSet
     THEN Reject(h, 500, InternalError) /\ UNCHANGED <<cachedPromise, attempts, awaited>>
     ELSE /\ Len(attempts) < MaxAttempts
          /\ attempts' = Append(attempts, "pending")
          /\ cachedPromise' = Len(attempts) + 1
          /\ awaited' = [awaited EXCEPT ![h] = Len(attempts) + 1]
          /\ Goto(h, "connecting")
  /\ UNCHANGED <<users, users0, now, uriSet, cachedConn, failures, env, user>>
  /\ UNCHANGED clientVars

\* dbConnect up to its await: the cached connection, or the cached promise,
\* or a new mongoose.connect; getMongoUri throws when the URI is not set
DbConnect(h) ==
  /\ pc[h] = "parsed"
  /\ ContinuationsDone
  /\ Ran(h, "connect")
  /\ IF cachedConn
     THEN Goto(h, "connected") /\ UNCHANGED <<cachedPromise, attempts, awaited>>
     ELSE IF cachedPromise # 0
     THEN /\ awaited' = [awaited EXCEPT ![h] = cachedPromise]
          /\ Goto(h, "connecting")
          /\ UNCHANGED <<cachedPromise, attempts>>
     ELSE IF ~uriSet
     THEN Reject(h, 500, InternalError) /\ UNCHANGED <<cachedPromise, attempts, awaited>>
     ELSE /\ Len(attempts) < MaxAttempts
          /\ attempts' = Append(attempts, "pending")
          /\ cachedPromise' = Len(attempts) + 1
          /\ awaited' = [awaited EXCEPT ![h] = Len(attempts) + 1]
          /\ Goto(h, "connecting")
  /\ UNCHANGED <<users, users0, now, uriSet, cachedConn, failures, env, user>>
  /\ UNCHANGED clientVars

\* mongoose.connect settles
ConnectSettles(a, ok) ==
  /\ a \in 1..Len(attempts)
  /\ attempts[a] = "pending"
  /\ ContinuationsDone
  /\ IF ok THEN failures' = failures
     ELSE failures < MaxFailures /\ failures' = failures + 1
  /\ attempts' = [attempts EXCEPT ![a] = IF ok THEN "fulfilled" ELSE "rejected"]
  /\ UNCHANGED <<users, users0, now, uriSet, cachedConn, cachedPromise, pc, env,
                 awaited, user, resp, steps>>
  /\ UNCHANGED clientVars

\* the await of dbConnect with a catch that keeps the cached promise
DbConnectAwaitKeepsPromise(h) ==
  /\ pc[h] = "connecting"
  /\ attempts[awaited[h]] # "pending"
  /\ IF attempts[awaited[h]] = "fulfilled"
     THEN cachedConn' = TRUE /\ UNCHANGED cachedPromise /\ Goto(h, "connected")
     ELSE UNCHANGED <<cachedPromise, cachedConn>> /\ Reject(h, 500, InternalError)
  /\ UNCHANGED <<users, users0, now, uriSet, attempts, failures, env, awaited,
                 user, steps>>
  /\ UNCHANGED clientVars

\* lines 47-54 of dbConnect: the awaited promise has settled
DbConnectAwait(h) ==
  /\ pc[h] = "connecting"
  /\ attempts[awaited[h]] # "pending"
  /\ IF attempts[awaited[h]] = "fulfilled"
     THEN cachedConn' = TRUE /\ UNCHANGED cachedPromise /\ Goto(h, "connected")
     ELSE cachedPromise' = 0 /\ UNCHANGED cachedConn /\ Reject(h, 500, InternalError)
  /\ UNCHANGED <<users, users0, now, uriSet, attempts, failures, env, awaited,
                 user, steps>>
  /\ UNCHANGED clientVars

(***************************************************************************)
(* Step 3 of POST: the ledger.                                             *)
(***************************************************************************)
\* line 509, and for a user that exists lines 527-547 up to the call of save
FindOne(h) ==
  /\ pc[h] = "connected"
  /\ Ran(h, "find")
  /\ LET k == FindOneId(users, env[h].accountId)
     IN  IF k = 0
         THEN Goto(h, "creating") /\ UNCHANGED user
         ELSE /\ user' = [user EXCEPT ![h] = Credited(Loaded(users, k), env[h], now)]
              /\ Goto(h, "saving")
  /\ UNCHANGED <<users, users0, now, cacheVars, failures, env, awaited>>
  /\ UNCHANGED clientVars

\* lines 517-522, then lines 527-547 up to the call of save
Create(h) ==
  /\ pc[h] = "creating"
  /\ Ran(h, "create")
  /\ IF DuplicateKey(users, env[h].accountId)
     THEN Reject(h, 500, InternalError) /\ UNCHANGED <<users, user>>
     ELSE /\ users' = Append(users, NewUser(env[h].accountId))
          /\ user' = [user EXCEPT
                        ![h] = Credited(Loaded(users', Len(users')), env[h], now)]
          /\ Goto(h, "saving")
  /\ UNCHANGED <<users0, now, cacheVars, failures, env, awaited>>
  /\ UNCHANGED clientVars

\* line 550
Save(h) ==
  /\ pc[h] = "saving"
  /\ Ran(h, "save")
  /\ users' = SaveUser(users, user[h])
  /\ Goto(h, "credited")
  /\ UNCHANGED <<users0, now, cacheVars, failures, env, awaited, user>>
  /\ UNCHANGED clientVars

\* a failure of the store after which the operation is tried again
PersistenceFailsRetries(h) ==
  /\ pc[h] \in {"connected", "creating", "saving"}
  /\ failures < MaxFailures
  /\ failures' = failures + 1
  /\ Ran(h, CASE pc[h] = "connected" -> "find" [] pc[h] = "creating" -> "create"
              [] OTHER -> "save")
  /\ UNCHANGED <<users, users0, now, cacheVars, pc, env, awaited, user, resp>>
  /\ UNCHANGED clientVars

\* a failure of the store that is swallowed: the request answers success
PersistenceFailsSwallowed(h) ==
  /\ pc[h] \in {"connected", "creating", "saving"}
  /\ failures < MaxFailures
  /\ failures' = failures + 1
  /\ Ran(h, CASE pc[h] = "connected" -> "find" [] pc[h] = "creating" -> "create"
              [] OTHER -> "save")
  /\ pc' = [pc EXCEPT ![h] = "responded"]
  /\ resp' = [resp EXCEPT ![h] = Success(Normalise(user[h].balance, Decimals))]
  /\ UNCHANGED <<users, users0, now, cacheVars, env, awaited, user>>
  /\ UNCHANGED clientVars

\* findOne, create or save rejects (the store is unavailable): line 570
PersistenceFails(h) ==
  /\ pc[h] \in {"connected", "creating", "saving"}
  /\ failures < MaxFailures
  /\ failures' = failures + 1
  /\ Ran(h, CASE pc[h] = "connected" -> "find" [] pc[h] = "creating" -> "create"
              [] OTHER -> "save")
  /\ Reject(h, 500, InternalError)
  /\ UNCHANGED <<users, users0, now, cacheVars, env, awaited, user>>
  /\ UNCHANGED clientVars

\* a response that reports previousBalance instead of the new balance
RespondPreviousBalance(h) ==
  /\ pc[h] = "credited"
  /\ pc' = [pc EXCEPT ![h] = "responded"]
  /\ resp' = [resp EXCEPT
               ![h] = Success(Normalise(user[h].balance
                                          - UsdtAmountWithDecimals(DepositAmount(env[h].message)),
                                        Decimals))]
  /\ UNCHANGED <<users, users0, now, cacheVars, failures, env, awaited, user, steps>>
  /\ UNCHANGED clientVars

\* lines 552-569
Respond(h) ==
  /\ pc[h] = "credited"
  /\ pc' = [pc EXCEPT ![h] = "responded"]
  /\ resp' = [resp EXCEPT ![h] = Success(Normalise(user[h].balance, Decimals))]
  /\ UNCHANGED <<users, users0, now, cacheVars, failures, env, awaited, user, steps>>
  /\ UNCHANGED clientVars

\* time passes
Tick ==
  /\ now < MaxTime
  /\ now' = now + 1
  /\ UNCHANGED <<users, users0, cacheVars, failures, pc, env, awaited, user,
                 resp, steps>>
  /\ UNCHANGED clientVars

Next ==
  \/ \E h \in Handlers, e \in Envelopes : Receive(h, e)
  \/ \E h \in Handlers : FieldCheck(h)
  \/ \E h \in Handlers : VerifySignature(h)
  \/ \E h \in Handlers : ParseMessage(h)
  \/ \E h \in Handlers : DbConnect(h)
  \/ \E a \in 1..MaxAttempts, ok \in BOOLEAN : ConnectSettles(a, ok)
  \/ \E h \in Handlers : DbConnectAwait(h)
  \/ \E h \in Handlers : FindOne(h)
  \/ \E h \in Handlers : Create(h)
  \/ \E h \in Handlers : Save(h)
  \/ \E h \in Handlers : PersistenceFails(h)
  \/ \E h \in Handlers : Respond(h)
  \/ Tick

Spec == Init /\ [][Next]_vars

\* a step of POST for request h, once the request has arrived
HandlerStep(h) ==
  \/ FieldCheck(h) \/ VerifySignature(h) \/ ParseMessage(h)
  \/ DbConnect(h) \/ DbConnectAwait(h)
  \/ FindOne(h) \/ Create(h) \/ Save(h) \/ PersistenceFails(h)
  \/ Respond(h)

\* a continuation of some request runs, or a connection attempt settles
Progress ==
  \/ \E h \in Handlers : HandlerStep(h)
  \/ \E a \in 1..MaxAttempts, ok \in BOOLEAN : ConnectSettles(a, ok)

\* The event loop runs a continuation while one is ready, and the driver
\* settles every connection attempt (it succeeds, or it times out).
Fairness == WF_vars(Progress)

\* one request of each kind of outcome: credited for either account,
\* rejected by each of the gates, and a body that cannot be parsed
LifecycleEnvelopes ==
  {Signed("alice", M50), Signed("bob", M50),
   Envelope("alice", M50, Sig("base64", M50, "K2"), "K1"),
   Envelope("alice", M50, Sig("base64", M50, "K1"), Absent),
   Signed("alice", Text(TNeg, NoDeadline)), NonObject("unparsable")}

LifecycleNext ==
  \/ \E h \in Handlers, e \in LifecycleEnvelopes : Receive(h, e)
  \/ \E h \in Handlers : HandlerStep(h)
  \/ \E a \in 1..MaxAttempts, ok \in BOOLEAN : ConnectSettles(a, ok)

\* the relay under fair scheduling, on the requests of LifecycleEnvelopes and
\* with the clock held
FairSpec == Init /\ [][LifecycleNext]_vars /\ Fairness

(***************************************************************************)
(* dbConnect on its own: callers that reach their `await dbConnect()`      *)
(* again and again.                                                        *)
(***************************************************************************)
\* a route reaches its call of dbConnect
CallerArrives(h) ==
  /\ pc[h] = "idle"
  /\ pc' = [pc EXCEPT ![h] = "parsed"]
  /\ UNCHANGED <<users, users0, now, cacheVars, failures, env, awaited, user,
                 resp, steps>>
  /\ UNCHANGED clientVars

\* dbConnect has returned the connection or thrown: the call is over
CallerReturns(h) ==
  /\ pc[h] \in {"connected", "rejected"}
  /\ pc' = [pc EXCEPT ![h] = "idle"]
  /\ resp' = [resp EXCEPT ![h] = NoResponse]
  /\ steps' = [steps EXCEPT ![h] = <<>>]
  /\ awaited' = [awaited EXCEPT ![h] = 0]
  /\ UNCHANGED <<users, users0, now, cacheVars, failures, env, user>>
  /\ UNCHANGED clientVars

DbNext ==
  \/ \E h \in Handlers : CallerArrives(h)
  \/ \E h \in Handlers : DbConnect(h)
  \/ \E a \in 1..MaxAttempts, ok \in BOOLEAN : ConnectSettles(a, ok)
  \/ \E h \in Handlers : DbConnectAwait(h)
  \/ \E h \in Handlers : CallerReturns(h)

DbSpec == Init /\ [][DbNext]_vars

(***************************************************************************)
(* The status route (app/api/status/route.ts): GET runs the three checks   *)
(* and answers with the overall status.                                    *)
(***************************************************************************)
\* the handler slot in which checkMongoDB calls dbConnect
StatusCaller == 1

\* ServiceStatus
ServiceStatuses == {"ok", "error", "unconfigured"}

\* lines 198-202 with a status that is never degraded
OverallStatusNoDegraded(checks) ==
  IF \A i \in DOMAIN checks : checks[i] = "ok" THEN "healthy" ELSE "unhealthy"

\* lines 197-202
OverallStatus(checks) ==
  LET allOk == \A i \in DOMAIN checks : checks[i] = "ok"
      anyUnconfigured == \E i \in DOMAIN checks : checks[i] = "unconfigured"
  IN  IF allOk THEN "healthy"
      ELSE IF anyUnconfigured THEN "degraded" ELSE "unhealthy"

\* what is left of the state when a step of the status route changes health
StatusOnly ==
  /\ UNCHANGED serverVars
  /\ UNCHANGED <<modal, signing, deposit, posts, nonces, builder, page, wallet>>

\* the call of dbConnect at line 26 is over
EndDbCall ==
  /\ pc' = [pc EXCEPT ![StatusCaller] = "idle"]
  /\ resp' = [resp EXCEPT ![StatusCaller] = NoResponse]
  /\ steps' = [steps EXCEPT ![StatusCaller] = <<>>]
  /\ awaited' = [awaited EXCEPT ![StatusCaller] = 0]
  /\ UNCHANGED <<users, users0, now, cacheVars, failures, env, user>>
  /\ UNCHANGED <<modal, signing, deposit, posts, nonces, builder, page, wallet>>

\* GET starts the three checks (line 191); each runs to its first await:
\* checkMongoDB to its call of dbConnect, the other two to their fetch, and a
\* check whose variable is not set has returned "unconfigured"
StatusGet ==
  /\ health.pc = "idle"
  /\ pc[StatusCaller] = "idle"
  /\ ContinuationsDone
  /\ health' = [health EXCEPT
                  !.pc = "running",
                  !.mongo = IF uriSet THEN "connect" ELSE "unconfigured",
                  !.llama = IF health.llamaKey THEN "fetch" ELSE "unconfigured",
                  !.near = IF health.nearKey THEN "fetch" ELSE "unconfigured"]
  /\ pc' = IF uriSet THEN [pc EXCEPT ![StatusCaller] = "parsed"] ELSE pc
  /\ UNCHANGED <<users, users0, now, cacheVars, failures, env, awaited, user,
                 resp, steps>>
  /\ UNCHANGED <<modal, signing, deposit, posts, nonces, builder, page, wallet>>

\* lines 27-36: dbConnect returned; without a db the check is an error,
\* else the ping is sent
MongoConnected(db) ==
  /\ health.mongo = "connect"
  /\ pc[StatusCaller] = "connected"
  /\ health' = [health EXCEPT !.mongo = IF db THEN "ping" ELSE "error"]
  /\ EndDbCall

\* lines 43-51: dbConnect threw
MongoConnectFailed ==
  /\ health.mongo = "connect"
  /\ pc[StatusCaller] = "rejected"
  /\ health' = [health EXCEPT !.mongo = "error"]
  /\ EndDbCall

\* lines 36-51: the ping settles
MongoPing(ok) ==
  /\ health.mongo = "ping"
  /\ health' = [health EXCEPT !.mongo = IF ok THEN "ok" ELSE "error"]
  /\ StatusOnly

\* what a fetch does: it throws, or answers with res.ok or without
FetchOutcomes == {"throws", "ok", "notok"}

\* lines 80-98 and 120-128: the fetch of checkLlamaCloud settles
LlamaFetch(o) ==
  /\ health.llama = "fetch"
  /\ health' = [health EXCEPT
                  !.llama = CASE o = "throws" -> "error"
                              [] o = "ok" -> "json"
                              [] OTHER -> "text"]
  /\ StatusOnly

\* the body of an answer read as JSON: an object, null, or not JSON
JsonBodies == {"object", "null", "unparsable"}

\* lines 87-96: res.json() settles (an unparsable body reads as {}); data.id
\* of null throws, which line 120 catches
LlamaJson(data) ==
  /\ health.llama = "json"
  /\ health' = [health EXCEPT !.llama = IF data = "null" THEN "error" ELSE "ok"]
  /\ StatusOnly

\* lines 98-119: res.text() settles or throws
LlamaText(ok) ==
  /\ health.llama = "text"
  /\ health' = [health EXCEPT !.llama = "error"]
  /\ StatusOnly

\* lines 142-163 and 179-187: the fetch of checkNearAI settles
NearFetch(o) ==
  /\ health.near = "fetch"
  /\ health' = [health EXCEPT
                  !.near = CASE o = "throws" -> "error"
                             [] o = "ok" -> "ok"
                             [] OTHER -> "json"]
  /\ StatusOnly

\* lines 163-178: res.json() settles (an unparsable body reads as {})
NearJson(data) ==
  /\ health.near = "json"
  /\ health' = [health EXCEPT !.near = "error"]
  /\ StatusOnly

\* lines 191-205: the three checks have returned and GET answers
StatusRespond ==
  /\ health.pc = "running"
  /\ {health.mongo, health.llama, health.near} \subseteq ServiceStatuses
  /\ health' = [health EXCEPT
                  !.pc = "responded",
                  !.status = OverallStatus(<<health.mongo, health.llama, health.near>>)]
  /\ StatusOnly

\* either variable of the two services set or not
StatusInit ==
  /\ RelayInit /\ ClientInit /\ builder = NoBuilder /\ wallet = NoWallet
  /\ health \in {[NoStatus EXCEPT !.llamaKey = l, !.nearKey = n] :
                    l \in BOOLEAN, n \in BOOLEAN}

\* a continuation of GET or of a call of dbConnect runs, or a promise settles
StatusProgress ==
  \/ \E h \in Handlers : DbConnect(h)
  \/ \E a \in 1..MaxAttempts, ok \in BOOLEAN : ConnectSettles(a, ok)
  \/ \E h \in Handlers : DbConnectAwait(h)
  \/ \E db \in BOOLEAN : MongoConnected(db)
  \/ MongoConnectFailed
  \/ \E ok \in BOOLEAN : MongoPing(ok)
  \/ \E o \in FetchOutcomes : LlamaFetch(o)
  \/ \E data \in JsonBodies : LlamaJson(data)
  \/ \E ok \in BOOLEAN : LlamaText(ok)
  \/ \E o \in FetchOutcomes : NearFetch(o)
  \/ \E data \in JsonBodies : NearJson(data)
  \/ StatusRespond

\* one GET of the status route beside other routes that call dbConnect
StatusNext ==
  \/ StatusGet
  \/ \E h \in Handlers \ {StatusCaller} : CallerArrives(h)
  \/ StatusProgress

\* every promise the route awaits settles (the driver and fetch time out),
\* and the event loop runs a continuation while one is ready
StatusSpec == StatusInit /\ [][StatusNext]_vars /\ WF_vars(StatusProgress)

(***************************************************************************)
(* The intent builder on its own: one call of createTokenTransferIntent    *)
(* on given options, and calls of isIntentValid on a given intent as time  *)
(* passes.                                                                 *)
(***************************************************************************)
TAbc == <<"a", "b", "c">>
TQuote == <<"5", "0", "0", "0", "0", "0", "0", "0">>

\* amountIn: empty, positive, zero, negative, not a number
AmountStrings == {<<>>, TQuote, T50, TZero, TNeg, TAbc}

MinuteValues == {NoMinutes, Minutes(30), Minutes(1), Minutes(0), Minutes(0 - 1)}

OptionSets ==
  {CreateIntentOptions(s, r, ti, a, to, d) :
     s \in {"alice", Absent}, r \in {"treasury.veridoc.testnet", Absent},
     ti \in {"usdc.fakes.testnet", Absent}, a \in AmountStrings,
     to \in {"usdt.fakes.testnet", Absent}, d \in MinuteValues}

\* intents handed to isIntentValid, by their deadline
GivenIntents ==
  {[kind |-> "intent", error |-> "", nonce |-> <<0, 0>>, deadline |-> d,
    options |-> <<>>] : d \in 0..(MaxTime + 1)}

BuilderInit ==
  /\ RelayInit
  /\ ClientInit
  /\ wallet = NoWallet /\ health = NoStatus
  /\ builder \in {[options |-> <<o>>, result |-> NoIntent, builtAt |-> 0,
                   intent |-> g, log |-> <<>>] :
                    o \in OptionSets, g \in GivenIntents}

\* createTokenTransferIntent(options) is called
Build(random) ==
  /\ builder.options # <<>>
  /\ builder.result.kind = "none"
  /\ builder' = [builder EXCEPT
                   !.result = CreateTokenTransferIntent(builder.options[1], now, random),
                   !.builtAt = now]
  /\ UNCHANGED <<users, users0, now, cacheVars, failures, pc, env, awaited,
                 user, resp, steps, modal, signing, deposit, posts, nonces>>
  /\ UNCHANGED besideVars

\* isIntentValid(intent) is called, at most once per instant
CheckValid ==
  /\ builder.intent.kind = "intent"
  /\ \A i \in 1..Len(builder.log) : builder.log[i].at # now
  /\ builder' = [builder EXCEPT
                   !.log = Append(@, [at |-> now,
                                      valid |-> IsIntentValid(builder.intent, now)])]
  /\ UNCHANGED <<users, users0, now, cacheVars, failures, pc, env, awaited,
                 user, resp, steps, modal, signing, deposit, posts, nonces>>
  /\ UNCHANGED besideVars

BuilderNext ==
  \/ \E random \in 0..1 : Build(random)
  \/ CheckValid
  \/ Tick

BuilderSpec == BuilderInit /\ [][BuilderNext]_vars

(***************************************************************************)
(* WalletProvider: the effect that initializes the wallet selector.        *)
(***************************************************************************)
\* setState of a provider: React drops the update of an unmounted component
SetAccountId(inst, a) ==
  IF inst.life = "mounted" THEN [inst EXCEPT !.accountId = a] ELSE inst

\* the provider mounts: the effect runs and calls initWallet, which awaits
\* setupMeteorWallet.  The effect returns nothing.
ProviderMount(p) ==
  /\ wallet.inst[p].life = "new"
  /\ \A q \in 1..(p - 1) : wallet.inst[q].life # "new"
  /\ wallet' = [wallet EXCEPT !.inst[p].life = "mounted", !.inst[p].pc = "meteor"]
  /\ UNCHANGED <<serverVars, modal, signing, deposit, posts, nonces, builder,
                 page, health>>

\* setupMeteorWallet settles; then initWallet awaits setupWalletSelector
InitMeteor(p, ok) ==
  /\ wallet.inst[p].pc = "meteor"
  /\ wallet' = [wallet EXCEPT !.inst[p].pc = IF ok THEN "selector" ELSE "failed"]
  /\ UNCHANGED <<serverVars, modal, signing, deposit, posts, nonces, builder,
                 page, health>>

\* setupWalletSelector settles; on success lines 60-86 run: the selector and
\* the modal are set, accountId is set when an account is signed in, and the
\* store is subscribed to.  The function initWallet returns is dropped.
InitSelector(p, ok) ==
  /\ wallet.inst[p].pc = "selector"
  /\ IF ok
     THEN LET i == wallet.inst[p]
              set == IF i.life = "mounted" THEN [i EXCEPT !.selector = TRUE] ELSE i
              acc == IF wallet.store # Absent THEN SetAccountId(set, wallet.store)
                     ELSE set
          IN  wallet' = [wallet EXCEPT
                           !.inst[p] = [acc EXCEPT !.pc = "done", !.subscribed = TRUE]]
     ELSE wallet' = [wallet EXCEPT !.inst[p].pc = "failed"]
  /\ UNCHANGED <<serverVars, modal, signing, deposit, posts, nonces, builder,
                 page, health>>

\* the provider unmounts; the effect has no cleanup to run
ProviderUnmount(p) ==
  /\ wallet.inst[p].life = "mounted"
  /\ wallet' = [wallet EXCEPT !.inst[p].life = "unmounted"]
  /\ UNCHANGED <<serverVars, modal, signing, deposit, posts, nonces, builder,
                 page, health>>

\* the callback of line 74 for a new state of the store; late records that
\* it ran for a provider that was unmounted
OnAccounts(inst, a) ==
  IF ~inst.subscribed THEN inst
  ELSE [SetAccountId(inst, a) EXCEPT !.late = @ \/ inst.life = "unmounted"]

\* the user signs in as a, or signs out (Absent): the store notifies its
\* subscribers
AccountsChange(a) ==
  /\ a # wallet.store
  /\ wallet' = [store |-> a,
                inst |-> [p \in Providers |-> OnAccounts(wallet.inst[p], a)]]
  /\ UNCHANGED <<serverVars, modal, signing, deposit, posts, nonces, builder,
                 page, health>>

WalletInit ==
  /\ RelayInit /\ ClientInit /\ builder = NoBuilder /\ health = NoStatus
  /\ wallet \in {[NoWallet EXCEPT !.store = a] : a \in {Absent, "alice"}}

WalletNext ==
  \/ \E p \in Providers : ProviderMount(p)
  \/ \E p \in Providers, ok \in BOOLEAN : InitMeteor(p, ok)
  \/ \E p \in Providers, ok \in BOOLEAN : InitSelector(p, ok)
  \/ \E p \in Providers : ProviderUnmount(p)
  \/ \E a \in Accounts \cup {Absent} : AccountsChange(a)

WalletSpec == WalletInit /\ [][WalletNext]_vars

(***************************************************************************)
(* The wallet (WalletProvider.signMessage) and the two components that     *)
(* sign and send: DepositIntent and IntentPaymentModal.  The wallet is     *)
(* connected as alice, whose key is K1.                                    *)
(***************************************************************************)
\* the request has been answered
Finished(h) == pc[h] \in {"responded", "rejected"}

\* What signMessage gives its caller: it "throws" (no selector, no wallet, no
\* NEP-413 support, or the wallet rejects), or it returns what the wallet
\* returned: nothing ("null"), an object without a signature ("nosignature"),
\* or a signed message ("signed").
SignerResults == {"throws", "null", "nosignature", "signed"}

WalletError == "No wallet connected"

\* signedMessage.signature: base64 by NEP-413
SignatureOf(signedMessage, message) ==
  IF signedMessage = "signed" THEN Sig("base64", message, "K1") ELSE NoSignature

\* signedMessage.publicKey
PublicKeyOf(signedMessage) == IF signedMessage = "signed" THEN "K1" ELSE Absent

\* a POST on the log of requests sent
Post(client, nonce, h, signedMessage) ==
  [client |-> client, nonce |-> nonce, handler |-> h, signed |-> signedMessage]

(***************************************************************************)
(* BalancePage (app/balance/page.tsx).  The balance is kept as the number  *)
(* its string reads as.                                                    *)
(***************************************************************************)
Max(a, b) == IF a >= b THEN a ELSE b

\* x + y
Plus(x, y) ==
  LET e == Max(x.exp, y.exp)
  IN  Normalise(x.mant * Pow10(e - x.exp) + y.mant * Pow10(e - y.exp), e)

\* the number x.toFixed(2) reads as: x rounded to two decimals
ToFixed2(x) ==
  IF x.exp <= 2 THEN x
  ELSE Normalise((x.mant + 5 * Pow10(x.exp - 3)) \div Pow10(x.exp - 2), 2)

\* handleDepositSuccess(amount): the balance grows by amount and a row with
\* amount is put at the head of the history
HandleDepositSuccess(p, amount, time) ==
  [balance |-> ToFixed2(Plus(p.balance, amount)),
   transactions |-> <<[id |-> time, amount |-> amount]>> \o p.transactions]

(***************************************************************************)
(* DepositIntent.                                                          *)
(***************************************************************************)
DepositAmounts == {T50, TZero}

DepositCancelError == "Signature was cancelled or failed"
DepositAmountError == "Please enter a valid amount"
DepositSuccessMessage == "Intent Executed"

\* a test of the signer's result that forgets the signature field
DepositRefusesNullOnly(signedMessage) == signedMessage = "null"

\* !signedMessage || !signedMessage.signature
DepositRefuses(signedMessage) ==
  signedMessage = "null" \/ signedMessage = "nosignature"

\* !destinationAmount || parseFloat(destinationAmount) <= 0
DepositAmountInvalid(amount) ==
  amount = <<>> \/ LessOrEqualZero(ParseFloatSigned(amount))

\* the amount input: onChange
DepositType(amount) ==
  /\ ~deposit.isProcessing
  /\ amount # deposit.destinationAmount
  /\ deposit' = [deposit EXCEPT !.destinationAmount = amount, !.error = ""]
  /\ UNCHANGED <<serverVars, modal, signing, posts, nonces, builder>>
  /\ UNCHANGED besideVars

\* handleDeposit up to the await of signMessage; the button is disabled while
\* a deposit is processed and while the amount is not valid.  The nonce is 32
\* random bytes: a value drawn before is not drawn again.
DepositClick ==
  /\ ~deposit.isProcessing
  /\ ~DepositAmountInvalid(deposit.destinationAmount)
  /\ nonces < MaxIntents
  /\ IF DepositAmountInvalid(deposit.destinationAmount)
     THEN deposit' = [deposit EXCEPT !.error = DepositAmountError] /\ UNCHANGED nonces
     ELSE /\ nonces' = nonces + 1
          /\ deposit' = [deposit EXCEPT
                           !.isProcessing = TRUE, !.successMessage = "",
                           !.error = "", !.pc = "signing",
                           !.nonce = <<nonces + 1>>,
                           !.message = Text(deposit.destinationAmount, NoDeadline),
                           !.signed = "none"]
  /\ UNCHANGED <<serverVars, modal, signing, posts, builder>>
  /\ UNCHANGED besideVars

\* handleDeposit from the return of signMessage to the fetch
DepositSigned(signedMessage) ==
  /\ deposit.pc = "signing"
  /\ IF signedMessage = "throws" \/ DepositRefuses(signedMessage)
     THEN /\ deposit' = [deposit EXCEPT
                           !.isProcessing = FALSE, !.pc = "idle",
                           !.signed = signedMessage,
                           !.error = IF signedMessage = "throws" THEN WalletError
                                     ELSE DepositCancelError]
          /\ UNCHANGED <<serverVars, posts>>
     ELSE \E h \in Handlers :
            /\ Accept(h, Envelope("alice", deposit.message,
                                  SignatureOf(signedMessage, deposit.message),
                                  PublicKeyOf(signedMessage)))
            /\ deposit' = [deposit EXCEPT !.pc = "relaying", !.handler = h,
                                          !.signed = signedMessage]
            /\ posts' = Append(posts, Post("deposit", deposit.nonce, h, signedMessage))
  /\ UNCHANGED <<modal, signing, nonces, builder>>
  /\ UNCHANGED besideVars

\* handleDeposit from the response of the relay to its end; on success it
\* calls onDepositSuccess(result.newBalance.toString())
DepositResponse ==
  /\ deposit.pc = "relaying"
  /\ Finished(deposit.handler)
  /\ LET r == resp[deposit.handler]
     IN  IF r.status = 200 /\ r.success
         THEN /\ deposit' = [deposit EXCEPT
                               !.isProcessing = FALSE, !.pc = "idle",
                               !.successMessage = DepositSuccessMessage,
                               !.clearTimer = TRUE]
              /\ page' = HandleDepositSuccess(page, r.newBalance, now)
         ELSE /\ deposit' = [deposit EXCEPT
                               !.isProcessing = FALSE, !.pc = "idle",
                               !.error = r.error]
              /\ UNCHANGED page
  /\ UNCHANGED <<serverVars, modal, signing, posts, nonces, builder>>
  /\ UNCHANGED <<wallet, health>>

\* the timeout of lines 117-120
DepositClear ==
  /\ deposit.clearTimer
  /\ deposit' = [deposit EXCEPT !.successMessage = "", !.destinationAmount = <<>>,
                                !.clearTimer = FALSE]
  /\ UNCHANGED <<serverVars, modal, signing, posts, nonces, builder>>
  /\ UNCHANGED besideVars

(***************************************************************************)
(* IntentPaymentModal.  Of SUPPORTED_TOKENS the two with 6 decimals are    *)
(* kept: the quote of wNEAR, 50 / 3 * 10^24, is beyond the integers of the *)
(* model checker.                                                          *)
(***************************************************************************)
ModalTokens == {"usdc.fakes.testnet", "usdt.fakes.testnet"}
TreasuryAccount == "treasury.veridoc.testnet"
DestinationToken == "usdt.fakes.testnet"

ModalCancelError == "Firma cancelada por el usuario"
ModalRelayError == "Error al enviar el Intent al solver"

\* !signedMessage
ModalRefuses(signedMessage) == signedMessage = "null"

\* The body {intent, signature: signedMessage} as the relay reads it: no
\* accountId, no message, no publicKey, and an object for signature.
ModalBody(intent, signedMessage) ==
  Envelope(Absent, NoMessage,
           Sig("other", SerializeIntent(intent), PublicKeyOf(signedMessage)),
           Absent)

\* The parent opens the modal (isOpen becomes true): the effect of lines
\* 66-75 resets the state.  Timeouts and calls that are pending stay pending.
ModalOpen ==
  /\ ~modal.isOpen
  /\ modal' = [modal EXCEPT !.isOpen = TRUE, !.step = "select",
                            !.selectedToken = Absent, !.intent = NoIntent,
                            !.error = "", !.quoteAmount = <<>>]
  /\ UNCHANGED <<serverVars, signing, deposit, posts, nonces, builder>>
  /\ UNCHANGED besideVars

\* the close button, disabled in the steps signing and relaying: onClose()
ModalClose ==
  /\ modal.isOpen
  /\ modal.step \notin {"signing", "relaying"}
  /\ modal' = [modal EXCEPT !.isOpen = FALSE]
  /\ UNCHANGED <<serverVars, signing, deposit, posts, nonces, builder>>
  /\ UNCHANGED besideVars

\* handleTokenSelect up to its await; quotes holds the tokens of the calls
\* whose delay of 2 s is running
ModalSelectToken(token) ==
  /\ modal.isOpen
  /\ modal.step = "select"
  /\ nonces + Len(modal.quotes) < MaxIntents
  /\ modal' = [modal EXCEPT !.selectedToken = token, !.step = "quoting",
                            !.quotes = Append(@, token)]
  /\ UNCHANGED <<serverVars, signing, deposit, posts, nonces, builder>>
  /\ UNCHANGED besideVars

\* handleTokenSelect after its await, for the call whose delay ends first:
\* the quote and the intent of the token that call was made with.  The
\* random part of the nonce is taken as not drawn before.
ModalQuoteDone ==
  /\ modal.quotes # <<>>
  /\ nonces' = nonces + 1
  /\ LET token == Head(modal.quotes)
         newIntent ==
           CreateTokenTransferIntent(
             CreateIntentOptions("alice", TreasuryAccount, token,
                                 TQuote, DestinationToken, Minutes(30)),
             now, nonces + 1)
     IN  IF newIntent.kind = "intent"
         THEN modal' = [modal EXCEPT !.quotes = Tail(@), !.quoteAmount = TQuote,
                                     !.intent = newIntent, !.step = "signing"]
         ELSE modal' = [modal EXCEPT !.quotes = Tail(@), !.quoteAmount = TQuote,
                                     !.error = newIntent.error, !.step = "error"]
  /\ UNCHANGED <<serverVars, signing, deposit, posts, builder>>
  /\ UNCHANGED besideVars

\* "Firmar y Enviar" is clicked: handleSignIntent up to the await of the
\* wallet.  The button is rendered while step is "signing".
ModalClickSign(i) ==
  /\ modal.isOpen
  /\ modal.step = "signing"
  /\ modal.selectedToken # Absent
  /\ modal.intent.kind = "intent"
  /\ signing[i].pc = "idle"
  /\ \A j \in 1..(i - 1) : signing[j].pc # "idle"
  /\ signing' = [signing EXCEPT ![i] = [pc |-> "wallet", intent |-> modal.intent,
                                        handler |-> 0, signed |-> "none"]]
  /\ modal' = [modal EXCEPT !.step = "signing", !.error = ""]
  /\ UNCHANGED <<serverVars, deposit, posts, nonces, builder>>
  /\ UNCHANGED besideVars

\* handleSignIntent from the return of the wallet to the fetch
ModalSigned(i, signedMessage) ==
  /\ signing[i].pc = "wallet"
  /\ IF signedMessage = "throws" \/ ModalRefuses(signedMessage)
     THEN /\ modal' = [modal EXCEPT
                         !.step = "error",
                         !.error = IF signedMessage = "throws" THEN WalletError
                                   ELSE ModalCancelError]
          /\ signing' = [signing EXCEPT ![i].pc = "done", ![i].signed = signedMessage]
          /\ UNCHANGED <<serverVars, posts>>
     ELSE \E h \in Handlers :
            /\ Accept(h, ModalBody(signing[i].intent, signedMessage))
            /\ modal' = [modal EXCEPT !.step = "relaying"]
            /\ signing' = [signing EXCEPT ![i].pc = "relaying", ![i].handler = h,
                                          ![i].signed = signedMessage]
            /\ posts' = Append(posts, Post("modal", signing[i].intent.nonce, h,
                                           signedMessage))
  /\ UNCHANGED <<deposit, nonces, builder>>
  /\ UNCHANGED besideVars

\* errorData.error || "Error al enviar el Intent al solver", for any message
ModalErrorAsSent(r) == r.error

\* errorData.error || "Error al enviar el Intent al solver"
ModalErrorOf(r) == IF r.error # "" THEN r.error ELSE ModalRelayError

\* handleSignIntent from the response of the relay to its end; on success a
\* timeout of 2 s is set
ModalResponse(i) ==
  /\ signing[i].pc = "relaying"
  /\ Finished(signing[i].handler)
  /\ LET r == resp[signing[i].handler]
     IN  IF r.status = 200
         THEN modal' = [modal EXCEPT !.step = "success", !.closers = @ + 1]
         ELSE modal' = [modal EXCEPT !.step = "error", !.error = ModalErrorOf(r)]
  /\ signing' = [signing EXCEPT ![i].pc = "done"]
  /\ UNCHANGED <<serverVars, deposit, posts, nonces, builder>>
  /\ UNCHANGED besideVars

\* the timeout of lines 215-218: onSuccess() and onClose()
ModalSuccessTimeout ==
  /\ modal.closers > 0
  /\ modal' = [modal EXCEPT !.closers = @ - 1, !.paid = TRUE, !.isOpen = FALSE]
  /\ UNCHANGED <<serverVars, signing, deposit, posts, nonces, builder>>
  /\ UNCHANGED besideVars

\* "Intentar de Nuevo"
ModalRetry ==
  /\ modal.isOpen
  /\ modal.step = "error"
  /\ modal.error # ""
  /\ modal' = [modal EXCEPT !.step = "select"]
  /\ UNCHANGED <<serverVars, signing, deposit, posts, nonces, builder>>
  /\ UNCHANGED besideVars

\* What the fetch of the modal can come back with: the route answers 200, or
\* it answers with an error status and a body with or without an error
\* member.
FetchResults ==
  {Success(Normalise(50, 0)), Rejection(400, MissingFieldsError),
   Rejection(500, InternalError), Rejection(502, "")}

\* the fetch of request h settles
FetchSettles(h, r) ==
  /\ pc[h] = "received"
  /\ pc' = [pc EXCEPT ![h] = IF r.status = 200 THEN "responded" ELSE "rejected"]
  /\ resp' = [resp EXCEPT ![h] = r]
  /\ UNCHANGED <<users, users0, now, cacheVars, failures, env, awaited, user, steps>>
  /\ UNCHANGED clientVars

\* the modal alone, opened and closed by its parent, with any answer to its
\* fetch
ModalNext ==
  \/ ModalOpen
  \/ ModalClose
  \/ \E token \in ModalTokens : ModalSelectToken(token)
  \/ ModalQuoteDone
  \/ \E i \in Clicks : ModalClickSign(i)
  \/ \E i \in Clicks, signedMessage \in SignerResults : ModalSigned(i, signedMessage)
  \/ \E i \in Clicks : ModalResponse(i)
  \/ ModalSuccessTimeout
  \/ ModalRetry
  \/ \E h \in Handlers, r \in FetchResults : FetchSettles(h, r)

ModalSpec == Init /\ [][ModalNext]_vars

\* a request sent to the route by another client: no signature field
DirectEnvelopes == {Envelope("alice", M50, NoSignature, "K1")}

ClientNext ==
  \/ \E amount \in DepositAmounts : DepositType(amount)
  \/ DepositClick
  \/ \E signedMessage \in SignerResults : DepositSigned(signedMessage)
  \/ DepositResponse
  \/ DepositClear
  \/ \E token \in ModalTokens : ModalSelectToken(token)
  \/ ModalQuoteDone
  \/ \E i \in Clicks : ModalClickSign(i)
  \/ \E i \in Clicks, signedMessage \in SignerResults : ModalSigned(i, signedMessage)
  \/ \E i \in Clicks : ModalResponse(i)
  \/ ModalRetry
  \/ \E h \in Handlers, e \in DirectEnvelopes : Receive(h, e)
  \/ \E h \in Handlers : HandlerStep(h)
  \/ \E a \in 1..MaxAttempts, ok \in BOOLEAN : ConnectSettles(a, ok)

ClientSpec == Init /\ [][ClientNext]_vars

(***************************************************************************)
(* Vocabulary of the properties: what a request is, read off its body      *)
(* alone, and what the store holds for an account.                         *)
(***************************************************************************)
Last(s) == s[Len(s)]

\* the first n elements of s, all of s when it is shorter
Take(s, n) == SubSeq(s, 1, IF Len(s) < n THEN Len(s) ELSE n)

IsPrefix(s, t) == Len(s) <= Len(t) /\ \A i \in 1..Len(s) : s[i] = t[i]

Started(h) == pc[h] # "idle"

\* the body is a JSON object with the four fields present and non-empty
HasAllFields(e) ==
  /\ e.body = "object"
  /\ e.accountId \in Accounts
  /\ e.message.kind # "absent"
  /\ e.signature.form # "absent"
  /\ e.publicKey # Absent

\* the verify primitive is reached: the message is a string, the key parses
\* and the signature decodes to bytes
Verifiable(e) ==
  /\ HasAllFields(e)
  /\ e.message.kind # "nonstring"
  /\ e.publicKey \in Keys
  /\ e.signature.form \in {"hex", "base64", "array"}

\* the bytes are a signature of the message of the envelope under its key
Genuine(e) ==
  Verifiable(e) /\ e.signature.msg = e.message /\ e.signature.key = e.publicKey

\* the payload carries a strictly positive amount the relay can read
CarriesAmount(m) ==
  /\ m.kind = "text"
  /\ AmountMatch(m.token) # <<>>
  /\ ~IsNaN(ParseFloat(m.token))
  /\ ParseFloat(m.token).mant > 0

Creditable(e) == Genuine(e) /\ CarriesAmount(e.message)

\* the micro USDT a creditable envelope is worth
Units(e) == UsdtAmountWithDecimals(ParseFloat(e.message.token))

Gates == <<"fields", "signature", "parse">>

\* the steps of POST that write the collection
LedgerSteps == {"create", "save"}

RanStep(h, step) == \E i \in 1..Len(steps[h]) : steps[h][i] = step

\* the documents of an account
DocsOf(docs, a) == {k \in 1..Len(docs) : docs[k].accountId = a}

RECURSIVE SumOver(_, _, _)
SumOver(docs, ks, field) ==
  IF ks = {} THEN 0
  ELSE LET k == CHOOSE x \in ks : TRUE
       IN  (IF field = "balance" THEN docs[k].balance ELSE Len(docs[k].transactions))
             + SumOver(docs, ks \ {k}, field)

BalanceOf(docs, a) == SumOver(docs, DocsOf(docs, a), "balance")

TxCountOf(docs, a) == SumOver(docs, DocsOf(docs, a), "count")

\* sum of round_down(amount * 1_000_000) over a transaction list
RECURSIVE SumTransactions(_)
SumTransactions(txs) ==
  IF txs = <<>> THEN 0
  ELSE (Last(txs).amount.mant * 1000000) \div Pow10(Last(txs).amount.exp)
         + SumTransactions(SubSeq(txs, 1, Len(txs) - 1))

\* sum of the units of the requests in hs
RECURSIVE SumUnits(_)
SumUnits(hs) ==
  IF hs = {} THEN 0
  ELSE LET h == CHOOSE x \in hs : TRUE
       IN  Units(env[h]) + SumUnits(hs \ {h})

(***************************************************************************)
(* Properties of the relay.                                                *)
(***************************************************************************)
\* the gate a request fails first, 4 when it passes all three
FirstFailingGate(e) ==
  IF ~(HasAllFields(e) /\ e.message.kind # "nonstring") THEN 1
  ELSE IF ~Genuine(e) THEN 2
  ELSE IF ~CarriesAmount(e.message) THEN 3
  ELSE 4

\* C1: a step of POST that changes the collection is the create or the save
\* of a request that has run the field check, the signature verification and
\* the amount extraction, in this order, and passes all three; a request that
\* fails a gate has run the gates up to that one and nothing else, and is
\* rejected.
C1_LedgerOnlyAfterGates ==
  /\ [][users' # users =>
          \E h \in Handlers :
            /\ steps'[h] # steps[h]
            /\ Last(steps'[h]) \in LedgerSteps
            /\ Take(steps[h], 3) = Gates
            /\ Creditable(env[h])]_vars
  /\ [](\A h \in Handlers :
          /\ Started(h) /\ FirstFailingGate(env[h]) <= 3 =>
               /\ IsPrefix(steps[h], Take(Gates, FirstFailingGate(env[h])))
               /\ Len(steps[h]) = FirstFailingGate(env[h]) => pc[h] = "rejected"
          /\ Started(h) => IsPrefix(Take(steps[h], 3), Gates))

\* C1 witness: one request has been credited while another one, whose
\* signature is not genuine, was stopped at the signature gate
C1_Witness ==
  \E h, g \in Handlers :
    /\ pc[h] = "credited" /\ users # users0
    /\ pc[g] = "rejected" /\ FirstFailingGate(env[g]) = 2
    /\ steps[g] = <<"fields", "signature">>

\* C2 (as claimed): when the same envelope has been submitted twice and both
\* requests have finished, and no other request was made, the account has at
\* most one transaction more and at most one amount more than at the start.
C2_ReplayCreditsOnce ==
  \A h, g \in Handlers :
    (/\ h # g /\ env[h] = env[g] /\ Finished(h) /\ Finished(g)
     /\ Creditable(env[h])
     /\ \A o \in Handlers \ {h, g} : ~Started(o))
    => /\ TxCountOf(users, env[h].accountId)
            <= TxCountOf(users0, env[h].accountId) + 1
       /\ BalanceOf(users, env[h].accountId)
            <= BalanceOf(users0, env[h].accountId) + Units(env[h])

\* C3 (as claimed): when every request credits the same account, which
\* existed at the start, and all have responded with success, the balance is
\* the initial one plus the units of every request and there is one new
\* transaction per request.
C3_NoLostUpdate ==
  \A a \in Accounts :
    (/\ DocsOf(users0, a) # {}
     /\ \A h \in Handlers : pc[h] = "responded" /\ env[h].accountId = a)
    => /\ BalanceOf(users, a) = BalanceOf(users0, a) + SumUnits(Handlers)
       /\ TxCountOf(users, a) = TxCountOf(users0, a) + NumHandlers

\* C4 (as claimed): every stored balance is non-negative and is the sum of
\* round_down(amount * 1_000_000) over the transactions of the document.
C4_BalanceIsSumOfTransactions ==
  \A k \in 1..Len(users) :
    /\ users[k].balance >= 0
    /\ users[k].balance = SumTransactions(users[k].transactions)

\* C5 (as claimed): when every request made so far has ended without a
\* successful credit, the collection is as it was at the start.
C5_FailedRequestLeavesNoTrace ==
  (\A h \in Handlers : Started(h) => pc[h] = "rejected") => users = users0

\* C6: a request whose signature is verified and does not match the message
\* and the key is answered 401 at the signature gate and runs no later step;
\* while only such requests have been made the collection is unchanged.
C6_InvalidSignatureUnauthorized ==
  /\ \A h \in Handlers :
       (Verifiable(env[h]) /\ ~Genuine(env[h]) /\ RanStep(h, "signature")) =>
         /\ pc[h] = "rejected"
         /\ resp[h] = Rejection(401, InvalidSignatureError)
         /\ steps[h] = <<"fields", "signature">>
  /\ (\A h \in Handlers : Started(h) => Verifiable(env[h]) /\ ~Genuine(env[h]))
       => users = users0

\* C6 witness: a request signed with another key for an account the store has
\* never seen has been answered 401
C6_Witness ==
  \E h \in Handlers :
    /\ Verifiable(env[h]) /\ env[h].signature.key # env[h].publicKey
    /\ DocsOf(users, env[h].accountId) = {}
    /\ resp[h].status = 401

\* the time at which a request that reached the ledger step was processed
\* (the Date.now() of its transaction)
ProcessedAt(h) == Last(user[h].transactions).metadata.timestamp

\* C7 (as claimed): a request whose payload carries a deadline that had
\* passed when it was processed is not credited.
C7_ExpiredIntentRejected ==
  \A h \in Handlers :
    (pc[h] \in {"credited", "responded"} /\ env[h].message.deadline # NoDeadline)
      => ~(env[h].message.deadline < ProcessedAt(h))

\* C8: no two documents of the collection have the same accountId.
C8_OneAccountPerId ==
  \A i, j \in 1..Len(users) :
    users[i].accountId = users[j].accountId => i = j

\* C8 witness: two requests for the same account, which did not exist, have
\* both found no document and both called create
C8_Witness ==
  \E h, g \in Handlers :
    /\ h # g /\ env[h].accountId = env[g].accountId
    /\ RanStep(h, "create") /\ RanStep(g, "create")
    /\ DocsOf(users0, env[h].accountId) = {}

\* a field of the envelope is absent or empty
LacksField(e) ==
  /\ e.body = "object"
  /\ \/ e.accountId = Absent \/ e.message.kind = "absent"
     \/ e.signature.form = "absent" \/ e.publicKey = Absent

NonPositiveTokens == {TNeg, TZero}

\* C10 (as claimed): a genuinely signed request whose amount is negative or
\* zero is answered with the invalid-amount error once the amount has been
\* extracted, and has run no ledger step.
C10_NonPositiveAmountInvalid ==
  \A h \in Handlers :
    (/\ Genuine(env[h]) /\ env[h].message.kind = "text"
     /\ env[h].message.token \in NonPositiveTokens
     /\ RanStep(h, "parse"))
    => /\ resp[h] = Rejection(400, InvalidAmountError)
       /\ steps[h] = Gates

\* the pattern of the relay captures nothing in the payload
NoExtractableAmount(m) ==
  \/ m.kind = "nomsg"
  \/ /\ m.kind = "text"
     /\ \/ m.token = <<>>
        \/ \E i \in 1..Len(m.token) : m.token[i] \notin Digits \cup {"."}

\* the transactions written since the start, as <<document, position>>
NewTransactions ==
  {<<k, i>> \in (1..Len(users)) \X (1..4 * NumHandlers) :
     /\ i <= Len(users[k].transactions)
     /\ (k <= Len(users0) => i > Len(users0[k].transactions))}

\* C11: a genuinely signed request whose payload has no extractable amount is
\* answered 400 with the reason "Could not extract amount from message" and
\* runs no ledger step; every transaction written carries a strictly positive
\* amount, which is the number parseFloat reads in the message text of a
\* genuinely signed request.
C11_NoDefaultAmount ==
  /\ \A h \in Handlers :
       (Genuine(env[h]) /\ NoExtractableAmount(env[h].message) /\ RanStep(h, "parse"))
         => /\ pc[h] = "rejected"
            /\ resp[h] = Rejection(400, NoAmountError)
            /\ resp[h].error # ""
            /\ steps[h] = Gates
  /\ \A p \in NewTransactions :
       LET tx == users[p[1]].transactions[p[2]]
       IN  /\ ~tx.amount.nan
           /\ tx.amount.mant > 0
           /\ \E h \in Handlers :
                /\ Genuine(env[h])
                /\ env[h].message.kind = "text"
                /\ env[h].message.token = tx.metadata.message
                /\ tx.amount = ParseFloat(env[h].message.token)

\* C11 witness: a signed payload without a message member has been rejected
\* while another request has written a transaction
C11_Witness ==
  /\ \E h \in Handlers :
       /\ Genuine(env[h]) /\ env[h].message.kind = "nomsg"
       /\ resp[h].error = NoAmountError
  /\ NewTransactions # {}

\* the decimal fraction n / 10^0
Whole(n) == [nan |-> FALSE, mant |-> n, exp |-> 0]

\* no other request has been made for the account of request h
AloneOnAccount(h) ==
  \A g \in Handlers \ {h} : Started(g) => env[g].accountId # env[h].accountId

\* C12: when a genuinely signed request of amount 50.00 for an account that
\* did not exist, with no other request for that account, has responded, the
\* response is success with newBalance 50 and the collection holds one
\* document for the account, with balance 50_000_000 and one transaction of
\* type intent_deposit, status completed and amount 50.
C12_HappyPath ==
  \A h \in Handlers :
    (/\ pc[h] = "responded" /\ Genuine(env[h])
     /\ env[h].message.kind = "text" /\ env[h].message.token = T50
     /\ DocsOf(users0, env[h].accountId) = {}
     /\ AloneOnAccount(h))
    => /\ resp[h].success /\ resp[h].status = 200
       /\ resp[h].newBalance = Whole(50)
       /\ Cardinality(DocsOf(users, env[h].accountId)) = 1
       /\ \A k \in DocsOf(users, env[h].accountId) :
            /\ users[k].balance = 50000000
            /\ Len(users[k].transactions) = 1
            /\ users[k].transactions[1].type = "intent_deposit"
            /\ users[k].transactions[1].status = "completed"
            /\ users[k].transactions[1].amount = Whole(50)

\* C12 witness: such a request has responded
C12_Witness ==
  \E h \in Handlers :
    /\ pc[h] = "responded" /\ env[h].message.token = T50
    /\ DocsOf(users0, env[h].accountId) = {}
    /\ AloneOnAccount(h)

\* x is the balance b in display units: x = b / 1_000_000
IsDisplayOf(x, b) == ~x.nan /\ x.mant * 1000000 = b * Pow10(x.exp)

Stage(label) ==
  CASE label = "idle" -> 0
    [] label \in {"received", "fields_ok"} -> 1
    [] label = "signature_checked" -> 2
    [] label \in {"parsed", "connecting", "connected", "creating", "saving"} -> 3
    [] label = "credited" -> 4
    [] label = "responded" -> 5
    [] label = "rejected" -> 6

\* C14: a request changes state only to the next state of received,
\* signature_checked, parsed, credited, responded, or from one of the first
\* three to rejected; responded and rejected are final; a request that has
\* arrived eventually is responded (with success) or rejected (with a reason),
\* never both.
C14_RequestLifecycle ==
  /\ [][\A h \in Handlers :
          Stage(pc'[h]) # Stage(pc[h]) =>
            \/ Stage(pc'[h]) = Stage(pc[h]) + 1 /\ Stage(pc[h]) <= 4
            \/ Stage(pc'[h]) = 6 /\ Stage(pc[h]) \in 1..3]_vars
  /\ [](\A h \in Handlers :
          /\ pc[h] = "responded" => resp[h].success /\ resp[h].error = ""
          /\ pc[h] = "rejected" => ~resp[h].success /\ resp[h].error # ""
          /\ ~Finished(h) => resp[h] = NoResponse)
  /\ \A h \in Handlers : Started(h) ~> Finished(h)

\* C14 witness: one request has gone through all five states and another one
\* has been rejected after its signature was checked
C14_Witness ==
  \E h, g \in Handlers :
    /\ pc[h] = "responded" /\ Len(steps[h]) >= 6
    /\ pc[g] = "rejected" /\ steps[g] = Gates

\* the requests whose save has succeeded
SavedRequests == {h \in Handlers : pc[h] \in {"credited", "responded"}}

\* C15: no step of POST runs twice for one request; the transactions written
\* since the start are one per request whose save succeeded, and the
\* documents created are at most one per request that called create: a
\* request whose persistence failed has written no transaction.
C15_NoRetry ==
  /\ \A h \in Handlers :
       \A i, j \in 1..Len(steps[h]) : steps[h][i] = steps[h][j] => i = j
  /\ Cardinality(NewTransactions) = Cardinality(SavedRequests)
  /\ Len(users) - Len(users0)
       <= Cardinality({h \in Handlers : RanStep(h, "create")})

\* C15 witness: the save of one request failed and the save of another one
\* succeeded
C15_Witness ==
  \E h, g \in Handlers :
    /\ pc[h] = "rejected" /\ Len(steps[h]) > 0 /\ Last(steps[h]) = "save"
    /\ g \in SavedRequests

\* C16: a step of a request for account A leaves every document of another
\* account as it was and adds documents of A only, and the collection changes
\* in steps of requests only; whatever the state of the other requests, the
\* document a request is about to save exists and is a document of its own
\* account, and a request that is alone on its account and has run findOne
\* is not rejected as long as the store has not failed.
C16_AccountsIndependent ==
  /\ [][/\ \A h \in Handlers :
             steps'[h] # steps[h] =>
               /\ Len(users') >= Len(users)
               /\ \A k \in 1..Len(users) :
                    users[k].accountId # env[h].accountId => users'[k] = users[k]
               /\ \A k \in (Len(users) + 1)..Len(users') :
                    users'[k].accountId = env[h].accountId
        /\ (\A h \in Handlers : steps'[h] = steps[h]) => users' = users]_vars
  /\ [](\A h \in Handlers :
          /\ pc[h] = "saving"
               => /\ user[h].id \in 1..Len(users)
                  /\ users[user[h].id].accountId = env[h].accountId
                  /\ user[h].accountId = env[h].accountId
          /\ (AloneOnAccount(h) /\ RanStep(h, "find") /\ failures = 0)
               => pc[h] # "rejected")

\* C16 witness: a request has responded while a request for another account
\* that had existed before it arrived stands before its save
C16_Witness ==
  \E h, g \in Handlers :
    /\ env[h].accountId # env[g].accountId
    /\ pc[h] = "responded" /\ pc[g] = "saving"
    /\ DocsOf(users0, env[g].accountId) # {}

\* C17: in every step the collection keeps its documents, each with its
\* accountId, and the transaction list each document had is a prefix of the
\* list it has afterwards.
C17_TransactionsAppendOnly ==
  [][/\ Len(users') >= Len(users)
     /\ \A k \in 1..Len(users) :
          /\ users'[k].accountId = users[k].accountId
          /\ IsPrefix(users[k].transactions, users'[k].transactions)]_vars

\* C17 witness: two requests that read the same document before either saved
\* have both saved, with different transactions
C17_Witness ==
  \E h, g \in Handlers :
    /\ h # g /\ pc[h] = "responded" /\ pc[g] = "responded"
    /\ user[h].id = user[g].id
    /\ Len(user[h].transactions) = Len(user[g].transactions)
    /\ Last(user[h].transactions) # Last(user[g].transactions)

\* the three encodings of a signature the relay documents
AcceptedEncodings == {"hex", "base64", "array"}

\* the request has passed the presence check with a message that is a string
ReachesVerification(h) ==
  HasAllFields(env[h]) /\ env[h].message.kind # "nonstring" /\ RanStep(h, "signature")

\* C18: a request whose public key does not parse, or whose signature is in
\* none of the accepted encodings, is answered 401 at the signature step and
\* runs no later step.
C18_MalformedInputsUnauthorized ==
  \A h \in Handlers :
    (/\ ReachesVerification(h)
     /\ \/ env[h].publicKey \notin Keys
        \/ env[h].signature.form \notin AcceptedEncodings)
    => /\ pc[h] = "rejected"
       /\ resp[h].status = 401
       /\ steps[h] = <<"fields", "signature">>

\* C19 as stated: a signature in none of the three encodings is rejected as
\* a signature of invalid format, before PublicKey.verify is called.
C19_RejectedBeforeVerify ==
  \A h \in Handlers :
    (/\ ReachesVerification(h)
     /\ env[h].publicKey \in Keys
     /\ env[h].signature.form \notin AcceptedEncodings)
    => /\ pc[h] = "rejected"
       /\ resp[h] = Rejection(400, SignatureFormatError)

\* C19 amended: a signature that is neither a string nor an array is rejected
\* with 400 "Invalid signature format" before PublicKey.verify; a string in
\* another encoding is decoded as base64, handed to PublicKey.verify and
\* rejected with 401 "Invalid signature"; a request with a signature in none
\* of the three encodings ends at the signature step, and every request that
\* goes past it carries a signature in one of the three.
C19_OtherEncodingsNeverCredited ==
  \A h \in Handlers :
    /\ (/\ ReachesVerification(h)
        /\ env[h].publicKey \in Keys
        /\ env[h].signature.form \notin AcceptedEncodings)
       => /\ pc[h] = "rejected"
          /\ steps[h] = <<"fields", "signature">>
          /\ resp[h] = IF env[h].signature.form = "base58"
                       THEN Rejection(401, InvalidSignatureError)
                       ELSE Rejection(400, SignatureFormatError)
    /\ (RanStep(h, "parse") \/ pc[h] \in {"credited", "responded"})
       => env[h].signature.form \in AcceptedEncodings

\* C19 witness: a base58 string has been refused by the verification while
\* another request has been credited
C19_Witness ==
  \E h, g \in Handlers :
    /\ env[h].signature.form = "base58"
    /\ resp[h] = Rejection(401, InvalidSignatureError)
    /\ pc[g] = "responded"

\* C20: a request is answered 500 only after it has called dbConnect, that is
\* when connect, find, create or save failed; a request whose body or fields
\* are missing or malformed is answered 400 or 401.
C20_InternalErrorOnlyFromPersistence ==
  \A h \in Handlers :
    /\ resp[h].status = 500 => RanStep(h, "connect")
    /\ (Finished(h) /\ ~HasAllFields(env[h])) => resp[h].status \in {400, 401}
    /\ (Finished(h) /\ env[h].message.kind = "nonstring")
         => resp[h].status \in {400, 401}

\* C29: two requests with the same message, signature and publicKey that
\* have both been credited were credited to the same account.
C29_CreditFollowsSignature ==
  \A h, g \in Handlers :
    (/\ pc[h] \in {"credited", "responded"} /\ pc[g] \in {"credited", "responded"}
     /\ env[h].message = env[g].message
     /\ env[h].signature = env[g].signature
     /\ env[h].publicKey = env[g].publicKey)
    => /\ env[h].accountId = env[g].accountId
       /\ user[h].accountId = user[g].accountId

\* C30: when two requests for the same account, for which no document
\* existed, have both passed the gates and both called create, and the store
\* has not failed, both end responded.
C30_ConcurrentFirstCredits ==
  \A h, g \in Handlers :
    (/\ h # g /\ env[h].accountId = env[g].accountId
     /\ DocsOf(users0, env[h].accountId) = {}
     /\ Creditable(env[h]) /\ Creditable(env[g])
     /\ RanStep(h, "create") /\ RanStep(g, "create")
     /\ failures = 0
     /\ Finished(h) /\ Finished(g))
    => pc[h] = "responded" /\ pc[g] = "responded"

\* the connection attempts in flight
InFlight == {a \in 1..Len(attempts) : attempts[a] = "pending"}

\* request h passes from its call of dbConnect to the await or to the return
CallsDbConnect(h) == pc[h] = "parsed" /\ pc'[h] # "parsed"

\* C27: at most one connection attempt is in flight; a call made while an
\* attempt is in flight starts none and awaits that attempt; a call made once
\* the connection is cached returns it and starts no attempt.
C27_SingleFlight ==
  /\ [](Cardinality(InFlight) <= 1)
  /\ [][\A h \in Handlers :
          CallsDbConnect(h) =>
            /\ (cachedConn => pc'[h] = "connected" /\ attempts' = attempts)
            /\ (~cachedConn /\ InFlight # {}) =>
                 /\ attempts' = attempts
                 /\ pc'[h] = "connecting"
                 /\ awaited'[h] \in InFlight
            /\ Len(attempts') <= Len(attempts) + 1]_vars

\* C27 witness: two calls await the one attempt in flight
C27_Witness ==
  \E h, g \in Handlers :
    /\ h # g /\ pc[h] = "connecting" /\ pc[g] = "connecting"
    /\ awaited[h] = awaited[g] /\ InFlight = {awaited[h]}

\* the catch of dbConnect runs for request h
HandlesFailedAttempt(h) == pc[h] = "connecting" /\ pc'[h] = "rejected"

\* the await of dbConnect is over for request h
AwaitOver(h) == pc[h] = "connecting" /\ pc'[h] # "connecting"

\* C28: a caller whose awaited attempt was rejected gets the error and leaves
\* the cache with no connection and no attempt; a call made without
\* MONGODB_URI gets the error and leaves the cache empty; a call that finds
\* the cache empty, with the URI set, starts a new attempt and awaits it.
C28_FailureClearsCache ==
  [][\A h \in Handlers :
       /\ AwaitOver(h) =>
            (attempts[awaited[h]] = "rejected" <=> HandlesFailedAttempt(h))
       /\ HandlesFailedAttempt(h) =>
            /\ resp'[h] = Rejection(500, InternalError)
            /\ ~cachedConn' /\ cachedPromise' = 0
       /\ (CallsDbConnect(h) /\ ~cachedConn /\ cachedPromise = 0) =>
            IF uriSet
            THEN /\ attempts' = Append(attempts, "pending")
                 /\ cachedPromise' = Len(attempts')
                 /\ awaited'[h] = Len(attempts')
                 /\ pc'[h] = "connecting"
            ELSE /\ resp'[h] = Rejection(500, InternalError)
                 /\ attempts' = attempts
                 /\ ~cachedConn' /\ cachedPromise' = 0]_vars

\* C28 witness: after a rejected attempt a later one gave the connection
C28_Witness ==
  \E a, b \in 1..Len(attempts) :
    /\ a < b /\ attempts[a] = "rejected" /\ attempts[b] = "fulfilled"
    /\ cachedConn
    /\ \E h \in Handlers : awaited[h] = b /\ pc[h] = "connected"

\* the string parses to a strictly positive number
ParsesPositive(str) ==
  ~ParseFloatSigned(str).nan /\ ParseFloatSigned(str).mant > 0

\* the options createTokenTransferIntent is to accept
ValidOptions(o) ==
  /\ o.signerId # Absent /\ o.receiverId # Absent
  /\ o.tokenIn # Absent /\ o.tokenOut # Absent /\ o.amountIn # <<>>
  /\ ParsesPositive(o.amountIn)

\* the error of the first check that fails
FirstFailure(o) ==
  IF o.signerId = Absent \/ o.receiverId = Absent THEN SignerReceiverError
  ELSE IF o.tokenIn = Absent \/ o.tokenOut = Absent \/ o.amountIn = <<>>
  THEN TokensAmountError
  ELSE AmountPositiveError

\* C24: a call of createTokenTransferIntent returns an intent exactly when
\* the options are valid, and otherwise throws the error of the first failing
\* check.
C24_BuildValidates ==
  builder.result.kind # "none" =>
    LET o == builder.options[1]
    IN  /\ builder.result.kind = "intent" <=> ValidOptions(o)
        /\ builder.result.kind = "error" => builder.result.error = FirstFailure(o)
        /\ builder.result.kind = "intent" => builder.result.options = <<o>>

\* C25: the deadline of a returned intent is the time of construction plus
\* deadlineMinutes * 60_000 (30 minutes when not given) and is later than the
\* time of construction.
C25_DeadlineInFuture ==
  builder.result.kind = "intent" =>
    LET d == builder.options[1].deadlineMinutes
    IN  /\ builder.result.deadline
             = builder.builtAt + (IF d.given THEN d.minutes ELSE 30) * 60000
        /\ builder.result.deadline > builder.builtAt

\* C26: every call of isIntentValid returned true exactly when the time of
\* the call was before the deadline, and no call after one that returned
\* false returned true.
C26_ValidBeforeDeadline ==
  /\ \A i \in 1..Len(builder.log) :
       builder.log[i].valid <=> builder.log[i].at < builder.intent.deadline
  /\ \A i, j \in 1..Len(builder.log) :
       (i < j /\ ~builder.log[i].valid) =>
         /\ builder.log[i].at < builder.log[j].at
         /\ ~builder.log[j].valid

\* C26 witness: an intent was valid before its deadline and invalid at it
C26_Witness ==
  \E i, j \in 1..Len(builder.log) :
    /\ i < j /\ builder.log[i].valid /\ ~builder.log[j].valid
    /\ builder.log[j].at = builder.intent.deadline

\* C21: a signed intent sent by IntentPaymentModal reaches the relay as the
\* envelope of the signer's account, the serialized intent that was signed,
\* its signature and the public key, and the presence check lets it pass.
C21_ModalEnvelope ==
  \A i \in Clicks :
    (signing[i].signed = "signed" /\ signing[i].handler # 0) =>
      LET h == signing[i].handler
          m == SerializeIntent(signing[i].intent)
      IN  /\ env[h] = Envelope("alice", m, Sig("base64", m, "K1"), "K1")
          /\ ~MissingFields(env[h])
          /\ resp[h] # Rejection(400, MissingFieldsError)

\* C22: no two requests sent to the relay by the components carry the same
\* intent (the same nonce).
C22_SentOnce ==
  \A k, l \in 1..Len(posts) : k # l => posts[k].nonce # posts[l].nonce

\* results of the signer that carry no signature
Denied == {"throws", "null", "nosignature"}

\* request h has not gone past the presence check
StoppedAtFields(h) ==
  /\ steps[h] \in {<<>>, <<"fields">>}
  /\ pc[h] \in {"received", "rejected"}
  /\ pc[h] = "rejected" => resp[h] = Rejection(400, MissingFieldsError)

\* C23: when the signer gives no signature, DepositIntent sends nothing, and
\* IntentPaymentModal sends nothing or a request the presence check turns
\* away; both end with an error shown; the relay answers a request without
\* signature with 400 at the presence check, before any step on the ledger.
C23_NoSignatureNoCredit ==
  /\ [](/\ \A k \in 1..Len(posts) :
             posts[k].signed # "signed" =>
               /\ posts[k].client = "modal"
               /\ posts[k].signed = "nosignature"
               /\ StoppedAtFields(posts[k].handler)
        /\ \A h \in Handlers :
             (pc[h] # "idle" /\ env[h].body = "object"
                /\ env[h].signature.form = "absent") => StoppedAtFields(h))
  /\ [][/\ (deposit.pc = "signing" /\ deposit'.pc # "signing"
              /\ deposit'.signed \in Denied) =>
             /\ posts' = posts /\ users' = users /\ pc' = pc
             /\ deposit'.pc = "idle" /\ ~deposit'.isProcessing
             /\ deposit'.error # ""
        /\ \A i \in Clicks :
             /\ (signing[i].pc = "wallet" /\ signing'[i].pc # "wallet"
                   /\ signing'[i].signed \in {"throws", "null"}) =>
                  /\ posts' = posts /\ users' = users /\ pc' = pc
                  /\ modal'.step = "error" /\ modal'.error # ""
             /\ (signing[i].pc = "relaying" /\ signing'[i].pc # "relaying"
                   /\ signing[i].signed = "nosignature") =>
                  /\ users' = users
                  /\ modal'.step = "error" /\ modal'.error # ""]_vars

\* C23 witness: the signer gave DepositIntent an object without signature and
\* the component shows the error with nothing sent, and the relay has turned
\* away a request without signature
C23_Witness ==
  /\ deposit.signed = "nosignature" /\ deposit.pc = "idle"
  /\ deposit.error = DepositCancelError
  /\ \A k \in 1..Len(posts) : posts[k].client # "deposit"
  /\ \E h \in Handlers :
       /\ env[h].signature.form = "absent" /\ pc[h] = "rejected"
       /\ resp[h] = Rejection(400, MissingFieldsError)

\* C31: whenever IntentPaymentModal holds an intent and a selected token,
\* the intent's tokenIn is the selected token and quoteAmount is the intent's
\* amountIn.
C31_IntentOfSelectedToken ==
  (modal.intent.kind = "intent" /\ modal.selectedToken # Absent) =>
    /\ modal.intent.options[1].tokenIn = modal.selectedToken
    /\ modal.quoteAmount = modal.intent.options[1].amountIn

\* the state the effect of lines 66-75 sets
ModalIsReset ==
  /\ modal.step = "select" /\ modal.selectedToken = Absent
  /\ modal.intent = NoIntent /\ modal.quoteAmount = <<>> /\ modal.error = ""

\* C32: when the modal is opened its state is reset, and from then on it
\* leaves step select only by the user's selection of a token.
C32_ResetOnOpen ==
  /\ [][(~modal.isOpen /\ modal'.isOpen) => ModalIsReset']_vars
  /\ [][(modal.step = "select" /\ modal'.step # "select") =>
          /\ modal.isOpen
          /\ modal'.step = "quoting"
          /\ modal'.selectedToken # Absent
          /\ modal'.quotes = Append(modal.quotes, modal'.selectedToken)]_vars

\* call i of handleSignIntent has ended with a signed message from the wallet
\* and an OK answer of the relay
PaidBy(i) ==
  /\ signing[i].pc = "done"
  /\ signing[i].signed \in {"signed", "nosignature"}
  /\ signing[i].handler # 0
  /\ resp[signing[i].handler].status = 200

\* call i of handleSignIntent ends in this step
CallEnds(i) == signing[i].pc # "done" /\ signing'[i].pc = "done"

DepositSettled(p) ==
  /\ p.client = "deposit"
  /\ pc[p.handler] = "responded"
  /\ ~(deposit.pc = "relaying" /\ deposit.handler = p.handler)

\* the successful deposits made through the page, oldest first
SettledDeposits == SelectSeq(posts, DepositSettled)

\* C34: the balance the page shows is the newBalance the relay returned for
\* the latest successful deposit, and the history has one row per successful
\* deposit, newest first, showing the amount of that deposit.
C34_PageShowsLedger ==
  LET n == Len(SettledDeposits)
  IN  /\ Len(page.transactions) = n
      /\ n > 0 =>
           page.balance = ToFixed2(resp[SettledDeposits[n].handler].newBalance)
      /\ \A k \in 1..n :
           page.transactions[n + 1 - k].amount
             = DepositAmount(env[SettledDeposits[k].handler].message)

\* C35: once a WalletProvider is unmounted, whether before or after its
\* initialization finished, it holds no subscription to the store and no
\* account event is delivered to it.
C35_UnsubscribedOnUnmount ==
  \A p \in Providers :
    wallet.inst[p].life = "unmounted" =>
      ~wallet.inst[p].subscribed /\ ~wallet.inst[p].late

\* the three checks of the GET that was answered
Checks == {health.mongo, health.llama, health.near}

\* C36: a GET of the status route is always answered, and the answer is
\* healthy exactly when the three checks are ok, degraded when they are not
\* all ok and one is unconfigured, unhealthy when they are not all ok and
\* none is unconfigured.
C36_StatusResponds ==
  /\ [](health.pc = "responded" =>
          /\ Checks \subseteq ServiceStatuses
          /\ health.status = "healthy" <=> Checks = {"ok"}
          /\ health.status = "degraded" <=>
               Checks # {"ok"} /\ "unconfigured" \in Checks
          /\ health.status = "unhealthy" <=>
               Checks # {"ok"} /\ "unconfigured" \notin Checks)
  /\ (health.pc = "running" ~> health.pc = "responded")

\* dbConnect threw and a fetch threw while a variable was not set, and the
\* GET was answered "degraded"
C36_Witness ==
  /\ health.pc = "responded"
  /\ health.status = "degraded"
  /\ health.mongo = "error"
  /\ failures > 0
  /\ "unconfigured" \in {health.llama, health.near}

=============================================================================
